---- MODULE Spec2Model ----
(***************************************************************************)
(* A model of dblib (art-den/dblib): the SQL preprocessor of               *)
(* src/src/dblib_stmt_tools.cpp and the statement life cycle of the three  *)
(* backends (dblib_postgresql.cpp, dblib.cpp).                             *)
(*                                                                         *)
(* A text is a sequence of one-character strings.  The regular expression  *)
(* of preprocess_internal is modelled alternative by alternative with the  *)
(* priorities of a backtracking ECMAScript matcher (std::regex, the build  *)
(* without DBLIB_BOOST_REGEX).  Whether `$` also matches before a line     *)
(* terminator differs between standard libraries; it is the variable       *)
(* regex_multiline, chosen once per run.                                   *)
(***************************************************************************)
EXTENDS Integers, Sequences, FiniteSets, TLC

(***************************************************************************)
(* Bounds                                                                  *)
(***************************************************************************)
MaxFrags == 3
MaxCycles == 3

(***************************************************************************)
(* Character classes of the regular expression                             *)
(***************************************************************************)
DigitChars == {"0", "1", "2", "3", "4", "5", "6", "7", "8", "9"}

LowerChars == {"a", "b", "c", "d", "e", "f", "g", "h", "i", "j", "k", "l", "m",
               "n", "o", "p", "q", "r", "s", "t", "u", "v", "w", "x", "y", "z"}

UpperChars == {"A", "B", "C", "D", "E", "F", "G", "H", "I", "J", "K", "L", "M",
               "N", "O", "P", "Q", "R", "S", "T", "U", "V", "W", "X", "Y", "Z"}

WordChars == DigitChars \cup LowerChars \cup UpperChars \cup {"_"}

SpaceChars == {" ", "\t", "\n", "\r", "\f"}

LineTerminators == {"\n", "\r"}

SigilChars == {"@", ":", "$"}

\* tolower() of <ctype.h> on the characters of the model
tolower(c) ==
    CASE c = "A" -> "a" [] c = "B" -> "b" [] c = "C" -> "c" [] c = "D" -> "d"
      [] c = "E" -> "e" [] c = "F" -> "f" [] c = "G" -> "g" [] c = "H" -> "h"
      [] c = "I" -> "i" [] c = "J" -> "j" [] c = "K" -> "k" [] c = "L" -> "l"
      [] c = "M" -> "m" [] c = "N" -> "n" [] c = "O" -> "o" [] c = "P" -> "p"
      [] c = "Q" -> "q" [] c = "R" -> "r" [] c = "S" -> "s" [] c = "T" -> "t"
      [] c = "U" -> "u" [] c = "V" -> "v" [] c = "W" -> "w" [] c = "X" -> "x"
      [] c = "Y" -> "y" [] c = "Z" -> "z" [] OTHER -> c

\* the characters of identifiers in the order of the execution character set
CharOrder ==
    <<"$", "0", "1", "2", "3", "4", "5", "6", "7", "8", "9", ":", "?", "@",
      "A", "B", "C", "D", "E", "F", "G", "H", "I", "J", "K", "L", "M",
      "N", "O", "P", "Q", "R", "S", "T", "U", "V", "W", "X", "Y", "Z", "_",
      "a", "b", "c", "d", "e", "f", "g", "h", "i", "j", "k", "l", "m",
      "n", "o", "p", "q", "r", "s", "t", "u", "v", "w", "x", "y", "z">>

CharCode(c) == CHOOSE i \in 1..Len(CharOrder) : CharOrder[i] = c

(***************************************************************************)
(* CaseInsensitiveComparer::operator(): the strict weak order of the       *)
(* parameter and column maps (shorter first, then tolower char by char)    *)
(***************************************************************************)
RECURSIVE LessFrom(_, _, _)
LessFrom(left, right, i) ==
    IF i > Len(left) THEN FALSE
    ELSE LET l1 == CharCode(tolower(left[i]))
             l2 == CharCode(tolower(right[i]))
         IN  IF l1 < l2 THEN TRUE
             ELSE IF l1 > l2 THEN FALSE
             ELSE LessFrom(left, right, i + 1)

CaseInsensitiveLess(left, right) ==
    IF Len(left) < Len(right) THEN TRUE
    ELSE IF Len(left) > Len(right) THEN FALSE
    ELSE LessFrom(left, right, 1)

\* equivalence of two keys in a std::map ordered by the comparer
SameKey(a, b) == ~CaseInsensitiveLess(a, b) /\ ~CaseInsensitiveLess(b, a)

(***************************************************************************)
(* item_regex, one operator per alternative.  A match of a text s at       *)
(* position i is given by the position after its last character; 0 means   *)
(* that the alternative does not match at i.                               *)
(***************************************************************************)
\* Then applied to the value of an expression that is evaluated once
With(value, Then(_)) == CHOOSE r \in {Then(v) : v \in {value}} : TRUE

Has(s, i, c) == i >= 1 /\ i <= Len(s) /\ s[i] = c

In(s, i, S) == i >= 1 /\ i <= Len(s) /\ s[i] \in S

\* the end of the greedy run of characters of S that starts at j
RECURSIVE RunEnd(_, _, _)
RunEnd(s, j, S) == IF In(s, j, S) THEN RunEnd(s, j + 1, S) ELSE j

\* the end of the greedy run of characters outside S that starts at j
RECURSIVE RunEndNot(_, _, _)
RunEndNot(s, j, S) ==
    IF j <= Len(s) /\ s[j] \notin S THEN RunEndNot(s, j + 1, S) ELSE j

\* `.` of ECMAScript: any character but a line terminator
DotMatches(c) == c \notin LineTerminators

\* `$`: the end of the searched range, and with multiline a line end
AtEol(s, p, multiline) ==
    \/ p = Len(s) + 1
    \/ multiline /\ In(s, p, LineTerminators)

\* (gr 1) (\?)\d+
IndexedEnd(s, i) ==
    IF Has(s, i, "?") /\ In(s, i + 1, DigitChars)
    THEN RunEnd(s, i + 1, DigitChars) ELSE 0

\* (gr 2) ([@:$])\w+
NamedEnd(s, i) ==
    IF In(s, i, SigilChars) /\ In(s, i + 1, WordChars)
    THEN RunEnd(s, i + 1, WordChars) ELSE 0

\* (?:\\.|qq|\\q|[^q])*q from position j on, q the quote character: the
\* alternatives of the greedy star in their order, the closing quote when
\* the star stops, backtracking on failure
RECURSIVE StringBodyEnd(_, _, _)
StringBodyEnd(s, j, q) ==
    LET esc == IF Has(s, j, "\\") /\ j + 1 <= Len(s) /\ DotMatches(s[j + 1])
               THEN StringBodyEnd(s, j + 2, q) ELSE 0
        dbl == IF esc = 0 /\ Has(s, j, q) /\ Has(s, j + 1, q)
               THEN StringBodyEnd(s, j + 2, q) ELSE 0
        escq == IF esc = 0 /\ dbl = 0 /\ Has(s, j, "\\") /\ Has(s, j + 1, q)
                THEN StringBodyEnd(s, j + 2, q) ELSE 0
        any == IF esc = 0 /\ dbl = 0 /\ escq = 0 /\ j <= Len(s) /\ s[j] # q
               THEN StringBodyEnd(s, j + 1, q) ELSE 0
    IN  IF esc # 0 THEN esc
        ELSE IF dbl # 0 THEN dbl
        ELSE IF escq # 0 THEN escq
        ELSE IF any # 0 THEN any
        ELSE IF Has(s, j, q) THEN j + 1
        ELSE 0

\* (gr 3) and (gr 4): a string in double or single quotes
StringEnd(s, i, q) == IF Has(s, i, q) THEN StringBodyEnd(s, i + 1, q) ELSE 0

\* (gr 11) (\/\*)[\s\S]*?\*\/ : up to the first */ after the opening
RECURSIVE BlockCommentClose(_, _)
BlockCommentClose(s, p) ==
    IF p + 1 > Len(s) THEN 0
    ELSE IF s[p] = "*" /\ s[p + 1] = "/" THEN p + 2
    ELSE BlockCommentClose(s, p + 1)

BlockCommentEnd(s, i) ==
    IF Has(s, i, "/") /\ Has(s, i + 1, "*")
    THEN BlockCommentClose(s, i + 2) ELSE 0

\* .*?  followed by X: the first position p >= j where X can match, all of
\* j..p-1 being matched by `.`
RECURSIVE LazyDotsTo(_, _, _, _)
LazyDotsTo(s, j, multiline, what) ==
    IF what = "eol" /\ AtEol(s, j, multiline) THEN j
    ELSE IF what = "brace" /\ Has(s, j, "}") THEN j
    ELSE IF j <= Len(s) /\ DotMatches(s[j])
         THEN LazyDotsTo(s, j + 1, multiline, what)
    ELSE 0

\* (gr 12) (\/\/).*?$
LineCommentEnd(s, i, multiline) ==
    IF Has(s, i, "/") /\ Has(s, i + 1, "/")
    THEN LazyDotsTo(s, i + 2, multiline, "eol") ELSE 0

\* the literal lit at position i of s
LitAt(s, i, lit) ==
    /\ i >= 1
    /\ i + Len(lit) - 1 <= Len(s)
    /\ SubSeq(s, i, i + Len(lit) - 1) = lit

NoMatch == [kind |-> "none", first |-> 0, second |-> 0, a |-> 0, b |-> 0, c |-> 0]

\* (gr 5,6,7) \{(if_seq)\s*([^,}]+)(.*?)\} : \s* and [^,}]+ are greedy and
\* give characters back in that order of priority, (.*?) is lazy.  Group 6
\* is [a, b), group 7 is [b, c), the match ends after the brace at c.
IfSeqMatch(s, i, multiline) ==
    IF ~LitAt(s, i, <<"{", "i", "f", "_", "s", "e", "q">>) THEN NoMatch
    ELSE LET after == i + 7
             wEnd == RunEnd(s, after, SpaceChars)
             ok == {kr \in (after..wEnd) \X (after..(Len(s) + 1)) :
                       /\ kr[2] > kr[1]
                       /\ kr[2] <= RunEndNot(s, kr[1], {",", "}"})
                       /\ LazyDotsTo(s, kr[2], multiline, "brace") # 0}
         IN  IF ok = {} THEN NoMatch
             ELSE LET k == CHOOSE x \in {kr[1] : kr \in ok} :
                                \A kr \in ok : kr[1] <= x
                      r == CHOOSE x \in {kr[2] : kr \in {y \in ok : y[1] = k}} :
                                \A kr \in ok : kr[1] = k => kr[2] <= x
                      cl == LazyDotsTo(s, r, multiline, "brace")
                  IN  [kind |-> "if_seq", first |-> i, second |-> cl + 1,
                       a |-> k, b |-> r, c |-> cl]

\* (gr 8,9,10) \{(next)\s*?(\w+)(.*?)\} : \s*? is lazy, \w+ greedy, (.*?)
\* lazy.  Group 9 is [a, b), group 10 is [b, c).
NextMatch(s, i, multiline) ==
    IF ~LitAt(s, i, <<"{", "n", "e", "x", "t">>) THEN NoMatch
    ELSE LET after == i + 5
             wEnd == RunEnd(s, after, SpaceChars)
             ok == {kr \in (after..wEnd) \X (after..(Len(s) + 1)) :
                       /\ kr[2] > kr[1]
                       /\ kr[2] <= RunEnd(s, kr[1], WordChars)
                       /\ LazyDotsTo(s, kr[2], multiline, "brace") # 0}
         IN  IF ok = {} THEN NoMatch
             ELSE LET k == CHOOSE x \in {kr[1] : kr \in ok} :
                                \A kr \in ok : kr[1] >= x
                      r == CHOOSE x \in {kr[2] : kr \in {y \in ok : y[1] = k}} :
                                \A kr \in ok : kr[1] = k => kr[2] <= x
                      cl == LazyDotsTo(s, r, multiline, "brace")
                  IN  [kind |-> "next", first |-> i, second |-> cl + 1,
                       a |-> k, b |-> r, c |-> cl]

Simple(kind, i, e) ==
    [kind |-> kind, first |-> i, second |-> e, a |-> 0, b |-> 0, c |-> 0]

\* the alternatives of item_regex at position i, the first that matches wins
MatchAt(s, i, multiline) ==
    IF IndexedEnd(s, i) # 0 THEN Simple("indexed", i, IndexedEnd(s, i))
    ELSE IF NamedEnd(s, i) # 0 THEN Simple("named", i, NamedEnd(s, i))
    ELSE IF StringEnd(s, i, "\"") # 0 THEN Simple("dq_string", i, StringEnd(s, i, "\""))
    ELSE IF StringEnd(s, i, "'") # 0 THEN Simple("sq_string", i, StringEnd(s, i, "'"))
    ELSE IF IfSeqMatch(s, i, multiline).kind # "none" THEN IfSeqMatch(s, i, multiline)
    ELSE IF NextMatch(s, i, multiline).kind # "none" THEN NextMatch(s, i, multiline)
    ELSE IF BlockCommentEnd(s, i) # 0 THEN Simple("block_comment", i, BlockCommentEnd(s, i))
    ELSE IF LineCommentEnd(s, i, multiline) # 0
         THEN Simple("line_comment", i, LineCommentEnd(s, i, multiline))
    ELSE NoMatch

\* regex_search(begin, sql.end(), m, item_regex): the leftmost match
RECURSIVE regex_search(_, _, _)
regex_search(s, begin, multiline) ==
    IF begin > Len(s) THEN NoMatch
    ELSE With(MatchAt(s, begin, multiline),
              LAMBDA m : IF m.kind # "none" THEN m
                         ELSE regex_search(s, begin + 1, multiline))

(***************************************************************************)
(* The preprocessed SQL is a sequence of items: a copied character, or the *)
(* text that one call of a SqlPreprocessorActions callback appends.  The   *)
(* callbacks are pure virtual; an item records the call and its arguments. *)
(***************************************************************************)
CopyItem(ch) == [t |-> "c", p |-> <<ch>>, n |-> 0, d |-> <<>>]

\* preprocessed_sql.insert(preprocessed_sql.end(), from, to) for [from, to)
Copy(s, from, to) == [k \in 1..(to - from) |-> CopyItem(s[from + k - 1])]

append_index_param_to_sql(parameter, param_index) ==
    [t |-> "index", p |-> parameter, n |-> param_index, d |-> <<>>]

append_named_param_to_sql(parameter, param_index) ==
    [t |-> "named", p |-> parameter, n |-> param_index, d |-> <<>>]

append_if_seq_data(data, other) ==
    [t |-> "if_seq", p |-> other, n |-> 0, d |-> data]

append_seq_generator(seq_name, other) ==
    [t |-> "seq_gen", p |-> other, n |-> 0, d |-> Copy(seq_name, 1, Len(seq_name) + 1)]

\* atoi() on a run of digits
RECURSIVE atoi(_)
atoi(digits) ==
    IF digits = <<>> THEN 0
    ELSE 10 * atoi(SubSeq(digits, 1, Len(digits) - 1))
         + (CharCode(digits[Len(digits)]) - CharCode("0"))

(***************************************************************************)
(* NamedParams and IndexedParams: a std::map is the set of its entries     *)
(* [key, slots]; the keys of a map are pairwise inequivalent.              *)
(***************************************************************************)
IndexedFind(indexed_params, user_index) ==
    {e \in indexed_params : e.key = user_index}

NamedFind(named_params, name) ==
    {e \in named_params : SameKey(e.key, name)}

\* map[key] = {v}: an entry that keeps the last slot only
PushBack_last_only(map, found, key, v) ==
    (map \ found) \cup {[key |-> key, slots |-> <<v>>]}

\* map[key].push_back(v), found being the entries equivalent to key
PushBack(map, found, key, v) ==
    IF found = {} THEN map \cup {[key |-> key, slots |-> <<v>>]}
    ELSE LET e == CHOOSE x \in found : TRUE
         IN  (map \ found) \cup {[key |-> e.key, slots |-> Append(e.slots, v)]}

(***************************************************************************)
(* SqlPreprocessor::preprocess_internal from position begin on.  st holds  *)
(* what the function receives by reference: out (preprocessed_sql),        *)
(* named (named_params), indexed (indexed_params) and param_index.         *)
(***************************************************************************)
\* an inner text preprocessed with maps and a slot counter of its own
in_placeholder_fresh(st) ==
    [out |-> <<>>, named |-> {}, indexed |-> {}, param_index |-> 1]

\* what the recursive call for the inner text of an if_seq receives: a
\* cleared in_placeholder_parsed_text with the caller's named_params,
\* indexed_params and param_index
in_placeholder(st) == [st EXCEPT !.out = <<>>]

RECURSIVE preprocess_internal(_, _, _, _, _, _)
RECURSIVE on_match(_, _, _, _, _, _, _)
on_match(sql, begin, st, m, use_native, supports_indexed, multiline) ==
    LET text == SubSeq(sql, m.first, m.second - 1)
        upto_first == st.out \o Copy(sql, begin, m.first)
        upto_second == st.out \o Copy(sql, begin, m.second)
    IN
        CASE m.kind = "indexed" ->
               IF ~use_native
               THEN LET parameter == SubSeq(text, 2, Len(text))
                        user_index == atoi(parameter)
                        found == IndexedFind(st.indexed, user_index)
                    IN  IF supports_indexed /\ found # {}
                        THEN LET existing_index == (CHOOSE e \in found : TRUE).slots[1]
                             IN  [st EXCEPT !.out = Append(upto_first,
                                     append_index_param_to_sql(parameter, existing_index))]
                        ELSE [st EXCEPT
                                 !.indexed = PushBack(st.indexed, found, user_index,
                                                      st.param_index),
                                 !.out = Append(upto_first,
                                     append_index_param_to_sql(parameter, st.param_index)),
                                 !.param_index = st.param_index + 1]
               ELSE [st EXCEPT !.out = upto_second]
          [] m.kind = "named" ->
               IF ~use_native
               THEN LET parameter == text
                        found == NamedFind(st.named, parameter)
                    IN  IF supports_indexed /\ found # {}
                        THEN LET existing_index == (CHOOSE e \in found : TRUE).slots[1]
                             IN  [st EXCEPT !.out = Append(upto_first,
                                     append_index_param_to_sql(parameter, existing_index))]
                        ELSE [st EXCEPT
                                 !.named = PushBack(st.named, found, parameter,
                                                    st.param_index),
                                 !.out = Append(upto_first,
                                     append_named_param_to_sql(parameter, st.param_index)),
                                 !.param_index = st.param_index + 1]
               ELSE [st EXCEPT !.out = upto_second]
          [] m.kind \in {"dq_string", "sq_string", "block_comment"} ->
               [st EXCEPT !.out = upto_second]
          [] m.kind = "if_seq" ->
               With(preprocess_internal(
                        SubSeq(sql, m.a, m.b - 1), 1,
                        in_placeholder(st),
                        use_native, supports_indexed, multiline),
                    LAMBDA inner :
                        [inner EXCEPT !.out = Append(upto_first,
                            append_if_seq_data(inner.out,
                                               SubSeq(sql, m.b, m.c - 1)))])
          [] m.kind = "next" ->
               LET seq_name == SubSeq(sql, m.a, m.b - 1)
                   other_str == SubSeq(sql, m.b, m.c - 1)
               IN  [st EXCEPT !.out = Append(upto_first,
                                     append_seq_generator(seq_name, other_str))]
          [] m.kind = "line_comment" ->
               [st EXCEPT !.out = Append(upto_second, CopyItem("\n"))]

preprocess_internal(sql, begin, st, use_native, supports_indexed, multiline) ==
    With(regex_search(sql, begin, multiline),
         LAMBDA m :
             IF m.kind = "none"
             THEN [st EXCEPT !.out = st.out \o Copy(sql, begin, Len(sql) + 1)]
             ELSE With(on_match(sql, begin, st, m, use_native, supports_indexed,
                                multiline),
                       LAMBDA st1 :
                           preprocess_internal(sql, m.second, st1, use_native,
                                               supports_indexed, multiline)))

\* preprocess that renders the placeholders in pass-through mode too
preprocess_rendering(self, sql, use_native, supports_indexed, multiline) ==
    preprocess_internal(sql, 1,
        [out |-> <<>>, named |-> {}, indexed |-> {}, param_index |-> 1],
        FALSE, supports_indexed, multiline)

\* SqlPreprocessor::preprocess: the text and both maps are cleared and the
\* slot counter starts at 1 before preprocess_internal runs.  self is the
\* object before the call.
preprocess(self, sql, use_native, supports_indexed, multiline) ==
    preprocess_internal(sql, 1,
        [out |-> <<>>, named |-> {}, indexed |-> {}, param_index |-> 1],
        use_native, supports_indexed, multiline)

(***************************************************************************)
(* IndexOrName: an ordinal or a name                                       *)
(***************************************************************************)
Index(i) == [type |-> "Index", index |-> i, name |-> <<>>]

Name(n) == [type |-> "Name", index |-> 0, name |-> n]

\* do_for_param_indexes that stops after the first slot of the identifier
do_for_param_indexes_first_slot(use_native, named_params, indexed_params, param) ==
    IF ~use_native
    THEN LET found == IF param.type = "Index"
                      THEN IndexedFind(indexed_params, param.index)
                      ELSE NamedFind(named_params, param.name)
         IN  IF found = {}
             THEN [calls |-> <<>>, thrown |-> "ParameterNotFoundException"]
             ELSE [calls |-> <<(CHOOSE e \in found : TRUE).slots[1]>>, thrown |-> ""]
    ELSE IF param.type = "Index"
         THEN [calls |-> <<param.index>>, thrown |-> ""]
         ELSE [calls |-> <<>>, thrown |-> "bad_variant_access"]

\* do_for_param_indexes that looks the identifier up in pass-through mode too
do_for_param_indexes_by_map(use_native, named_params, indexed_params, param) ==
    LET found == IF param.type = "Index"
                 THEN IndexedFind(indexed_params, param.index)
                 ELSE NamedFind(named_params, param.name)
    IN  IF found = {}
        THEN [calls |-> <<>>, thrown |-> "ParameterNotFoundException"]
        ELSE [calls |-> (CHOOSE e \in found : TRUE).slots, thrown |-> ""]

\* SqlPreprocessor::do_for_param_indexes: the arguments of the calls of fun
\* in their order, and the exception that ends the call ("" when none).
\* get_index() on a name is std::get on the wrong alternative (an assert
\* in a debug build): its outcome is left to the caller.
do_for_param_indexes(use_native, named_params, indexed_params, param) ==
    IF ~use_native
    THEN LET found == IF param.type = "Index"
                      THEN IndexedFind(indexed_params, param.index)
                      ELSE NamedFind(named_params, param.name)
         IN  IF found = {}
             THEN [calls |-> <<>>, thrown |-> "ParameterNotFoundException"]
             ELSE [calls |-> (CHOOSE e \in found : TRUE).slots, thrown |-> ""]
    ELSE IF param.type = "Index"
         THEN [calls |-> <<param.index>>, thrown |-> ""]
         ELSE [calls |-> <<>>, thrown |-> "bad_variant_access"]

(***************************************************************************)
(* State                                                                   *)
(***************************************************************************)
VARIABLES
    regex_multiline,                 \* `$` of the build's regex library
    preprocessed_sql_,               \* SqlPreprocessor::preprocessed_sql_
    named_params_,                   \* SqlPreprocessor::named_params_
    indexed_params_,                 \* SqlPreprocessor::indexed_params_
    use_native_parameters_syntax_,   \* SqlPreprocessor::use_native_parameters_syntax_
    sql,                             \* the text of the last preprocess call
    supports_indexed_params,         \* its supports_indexed_params argument
    op,                              \* the last call made on the object
    arg,                             \* its argument
    calls,                           \* the slots it reached, in order
    thrown,                          \* the exception it ended with, "" if none
    ret,                             \* what fetch returned, "none" otherwise
    backend,                         \* the statement class: "pg", "sqlite", "fb"
    state_,                          \* PgStatementImpl::state_
    result_contains_first_row_data_, \* PgStatementImpl
    contains_data_,                  \* PgStatementImpl, SQLiteStatementImpl
    stmt_,                           \* SQLiteStatementImpl, FbStatementImpl: 0 is no handle
    must_be_reseted_,                \* SQLiteStatementImpl
    step_called_,                    \* SQLiteStatementImpl
    last_step_result_,               \* SQLiteStatementImpl
    cursor_opened_,                  \* FbStatementImpl
    has_data_,                       \* FbStatementImpl
    type_,                           \* FbStatementImpl
    params_count,                    \* param_values_.size(), in_sqlda_ size, bind_parameter_count
    server_stmt,                     \* the database holds this statement prepared
    cursor,                          \* the row stream of the database: "none", "open", "eof", "error"
    stream_len,                      \* the rows of the open stream
    pulled,                          \* how many of them the client has taken
    ever_used,                       \* prepare or execute has been called
    replaced,                        \* the text preprocessed last replaced another text
    total,                           \* the rows of the last successful execute, -1 if none
    fetches,                         \* fetch calls since then
    row_ok,                          \* the last fetch since prepare/execute returned true
    run,                             \* fetch calls since it with no other call than column
                                     \* accessors in between, -1 once another call was made
    prev_stream,                     \* what the last execute() found of the stream before it
    db_,                             \* the connection holds a handle: db_handle_, db_, conn_
    transaction_is_active_,          \* SqliteConnectionImpl::transaction_is_active_
    began,                           \* the database session has a transaction open
    tran,                            \* the caller holds a transaction object
    tran_state_,                     \* Transaction::state_ of this object
    autostart,                       \* TransactionParams::autostart of the last create_transaction
    conn_life,                       \* the connection was "never" connected, is "connected",
                                     \* "disconnected", or its last connect "failed"
    cycles,                          \* connect/disconnect pairs that returned, up to MaxCycles
    in_sqlda_,                       \* FbStatementImpl::in_sqlda_: one XSQLVAR per slot
    sqlda_before,                    \* in_sqlda_ before the last set call
    set_value,                       \* the optional value of the last set call
    sets,                            \* set calls since the last prepare
    columns,                         \* the names get_column_name reports, in their order
    index_by_name_,                  \* ColumnsHelper::index_by_name_
    initialized_,                    \* ColumnsHelper::initialized_
    col_index,                       \* the ordinal the last column lookup resolved to, 0 if none
    warm,                            \* index_by_name_ held entries when the last prepare or
                                     \* text-execute began
    old_columns,                     \* columns when it began
    prep_ok,                         \* it returned without an exception
    data_,                           \* PgBuffer::data_, bytes
    header_added_,                   \* PgBuffer::header_added_
    footer_added_,                   \* PgBuffer::footer_added_
    start_tuple_pos_,                \* PgBuffer::start_tuple_pos_
    col_count_,                      \* PgBuffer::col_count_
    tuples,                          \* the tuples ended since the last clear(), each the
                                     \* optional values written into it
    fields,                          \* the optional values written since the last begin_tuple
    begun,                           \* begin_tuple calls since the last clear()
    in_order                         \* every call since the last clear() met its assertions,
                                     \* and no tuple was begun inside another

preVars == <<preprocessed_sql_, named_params_, indexed_params_,
             use_native_parameters_syntax_, sql, supports_indexed_params>>

stmtVars == <<state_, result_contains_first_row_data_, contains_data_, stmt_,
              must_be_reseted_, step_called_, last_step_result_,
              cursor_opened_, has_data_, type_, params_count,
              server_stmt, cursor, stream_len, pulled>>

historyVars == <<ever_used, replaced, total, fetches, row_ok, run, prev_stream>>

tranVars == <<db_, transaction_is_active_, began, tran, tran_state_, autostart,
              conn_life, cycles>>

sqldaVars == <<in_sqlda_, sqlda_before, set_value, sets>>

colsVars == <<columns, index_by_name_, initialized_, col_index, warm, old_columns,
              prep_ok>>

bufVars == <<data_, header_added_, footer_added_, start_tuple_pos_, col_count_,
             tuples, fields, begun, in_order>>

vars == <<regex_multiline, backend, preVars, stmtVars, historyVars, tranVars,
          sqldaVars, colsVars, bufVars, op, arg, calls, thrown, ret>>

(***************************************************************************)
(* The SQL texts of the preprocessor run: up to MaxFrags fragments         *)
(***************************************************************************)
Fragments ==
    { <<"?", "1">>, <<":", "a">>, <<":", "A">>, <<"x">>,
      <<"'">>, <<"'", "?", "1", "'">>, <<"\"">>, <<"\\">>,
      <<"/", "*">>, <<"*", "/">>, <<"/", "/">>, <<"\n">>,
      <<"{", "i", "f", "_", "s", "e", "q">>, <<"{", "n", "e", "x", "t">>,
      <<",">>, <<"}">> }

RECURSIVE Flatten(_)
Flatten(fs) == IF fs = <<>> THEN <<>> ELSE Head(fs) \o Flatten(Tail(fs))

\* longer statements: a line comment that holds an apostrophe followed by a
\* line with strings and parameters, parameters in the tail of a template,
\* a string that holds a closing brace inside a template, parameters inside
\* and after an if_seq
Samples ==
    { <<"/", "/", "'", "\n", "'", "x", "'", ":", "a", "'", "x", "'">>,
      <<"/", "/", "'", "\n", "'", "?", "1", "'">>,
      <<"/", "/", "'", "\n", ":", "a", "'", "x", "'", ":", "a">>,
      <<"{", "n", "e", "x", "t", " ", "x", ",", "?", "1", "}">>,
      <<":", "a", "{", "n", "e", "x", "t", " ", "x", ",", ":", "a", "}">>,
      <<"{", "i", "f", "_", "s", "e", "q", " ", "'", "}", "'", "}">>,
      <<"{", "i", "f", "_", "s", "e", "q", " ", ":", "a", ",", "x", "}", ":", "a", "?", "1">>,
      <<"?", "1", "/", "/", ":", "a", "\n", "?", "1", ":", "A", ":", "a">>,
      <<"?", "1", "{", "i", "f", "_", "s", "e", "q", " ", ":", "a", "?", "1", ",", ":", "A", "}", ":", "a">> }

Texts ==
    {Flatten(fs) : fs \in UNION {[1..n -> Fragments] : n \in 0..MaxFrags}}
        \cup Samples

\* the identifiers a caller asks for
Identifiers == {Index(1), Index(2), Name(<<":", "a">>), Name(<<":", "A">>)}

(***************************************************************************)
(* A statement object after construction: the member initialisers of the  *)
(* three statement classes, no statement prepared, no rows pending         *)
(***************************************************************************)
NewStatement ==
    /\ state_ = "Undef"
    /\ result_contains_first_row_data_ = FALSE
    /\ contains_data_ = FALSE
    /\ stmt_ = 0
    /\ must_be_reseted_ = FALSE
    /\ step_called_ = FALSE
    /\ last_step_result_ = "none"
    /\ cursor_opened_ = FALSE
    /\ has_data_ = FALSE
    /\ type_ = "Unknown"
    /\ params_count = 0
    /\ server_stmt = FALSE
    /\ cursor = "none"
    /\ stream_len = 0
    /\ pulled = 0
    /\ ever_used = FALSE
    /\ replaced = FALSE
    /\ total = -1
    /\ fetches = 0
    /\ row_ok = FALSE
    /\ run = -1
    /\ prev_stream = "none"
    /\ in_sqlda_ = <<>>
    /\ sqlda_before = <<>>
    /\ set_value = <<>>
    /\ sets = 0
    /\ columns = <<>>
    /\ index_by_name_ = {}
    /\ initialized_ = FALSE
    /\ col_index = 0
    /\ warm = FALSE
    /\ old_columns = <<>>
    /\ prep_ok = FALSE

(***************************************************************************)
(* A PgBuffer after construction                                           *)
(***************************************************************************)
NewBuffer ==
    /\ data_ = <<>>
    /\ header_added_ = FALSE
    /\ footer_added_ = FALSE
    /\ start_tuple_pos_ = 0
    /\ col_count_ = 0
    /\ tuples = <<>>
    /\ fields = <<>>
    /\ begun = 0
    /\ in_order = TRUE

(***************************************************************************)
(* A connection after construction, no transaction created                 *)
(***************************************************************************)
NewConnection ==
    /\ db_ = FALSE
    /\ transaction_is_active_ = FALSE
    /\ began = FALSE
    /\ tran = FALSE
    /\ tran_state_ = "Undefined"
    /\ autostart = TRUE
    /\ conn_life = "never"
    /\ cycles = 0

(***************************************************************************)
(* The preprocessor run: one SqlPreprocessor, one preprocess call, then    *)
(* one do_for_param_indexes call                                           *)
(***************************************************************************)
InitPre ==
    /\ regex_multiline \in BOOLEAN
    /\ preprocessed_sql_ = <<>>
    /\ named_params_ = {}
    /\ indexed_params_ = {}
    /\ use_native_parameters_syntax_ = FALSE
    /\ sql = <<>>
    /\ supports_indexed_params = FALSE
    /\ op = "new"
    /\ arg = Index(0)
    /\ calls = <<>>
    /\ thrown = ""
    /\ ret = "none"
    /\ backend = "none"
    /\ NewStatement
    /\ NewConnection
    /\ NewBuffer

Self ==
    [out |-> preprocessed_sql_, named |-> named_params_,
     indexed |-> indexed_params_]

Preprocess(text, use_native, supports_indexed) ==
    LET r == preprocess(Self, text, use_native, supports_indexed, regex_multiline)
    IN  /\ use_native_parameters_syntax_' = use_native
        /\ preprocessed_sql_' = r.out
        /\ named_params_' = r.named
        /\ indexed_params_' = r.indexed
        /\ sql' = text
        /\ supports_indexed_params' = supports_indexed
        /\ op' = "preprocess"
        /\ arg' = Index(0)
        /\ calls' = <<>>
        /\ thrown' = ""
        /\ UNCHANGED <<regex_multiline, backend, bufVars, stmtVars, historyVars, tranVars,
                       sqldaVars, colsVars, ret>>

DoForParamIndexes(param) ==
    LET r == do_for_param_indexes(use_native_parameters_syntax_, named_params_,
                                  indexed_params_, param)
    IN  /\ op' = "do_for_param_indexes"
        /\ arg' = param
        /\ calls' = r.calls
        /\ thrown' = r.thrown
        /\ UNCHANGED <<regex_multiline, backend, bufVars, preVars, stmtVars,
                       historyVars, tranVars, sqldaVars, colsVars, ret>>

PreFirst ==
    /\ op = "new"
    /\ \E text \in Texts, use_native \in BOOLEAN, supports_indexed \in BOOLEAN :
           Preprocess(text, use_native, supports_indexed)

PreLookup ==
    /\ op = "preprocess"
    /\ \E param \in Identifiers : DoForParamIndexes(param)

NextPre == PreFirst \/ PreLookup

SpecPre == InitPre /\ [][NextPre]_vars

(***************************************************************************)
(* The lexical structure of a SQL text, read left to right without         *)
(* backtracking: quoted strings (a backslash escapes the next character, a *)
(* doubled quote stands for a quote), block comments, line comments up to  *)
(* the end of their line, and placeholders outside all of these.  This is  *)
(* what the claims mean by "inside" and "outside" strings and comments.    *)
(***************************************************************************)
Tok(kind, from, to) == [kind |-> kind, from |-> from, to |-> to]

\* the position after the closing quote q of a string whose body starts at
\* j, 0 when the string is not terminated
RECURSIVE ScanString(_, _, _)
ScanString(s, j, q) ==
    IF j > Len(s) THEN 0
    ELSE IF s[j] = "\\"
         THEN IF j + 1 > Len(s) THEN 0 ELSE ScanString(s, j + 2, q)
    ELSE IF s[j] = q
         THEN IF Has(s, j + 1, q) THEN ScanString(s, j + 2, q) ELSE j + 1
    ELSE ScanString(s, j + 1, q)

\* the position after the first */ at or after j, 0 when there is none
RECURSIVE ScanBlockComment(_, _)
ScanBlockComment(s, j) ==
    IF j + 1 > Len(s) THEN 0
    ELSE IF LitAt(s, j, <<"*", "/">>) THEN j + 2
    ELSE ScanBlockComment(s, j + 1)

\* the token that starts at position i: its kind and the position after it
\* ("open" for an unterminated string or comment, "text" for one character)
TokenAt(s, i) ==
    IF s[i] \in {"'", "\""}
    THEN IF ScanString(s, i + 1, s[i]) = 0 THEN Tok("open", i, Len(s) + 1)
         ELSE Tok("string", i, ScanString(s, i + 1, s[i]))
    ELSE IF LitAt(s, i, <<"/", "*">>)
    THEN IF ScanBlockComment(s, i + 2) = 0 THEN Tok("open", i, Len(s) + 1)
         ELSE Tok("block_comment", i, ScanBlockComment(s, i + 2))
    ELSE IF LitAt(s, i, <<"/", "/">>)
    THEN Tok("line_comment", i, RunEndNot(s, i + 2, LineTerminators))
    ELSE IF IndexedEnd(s, i) # 0 THEN Tok("indexed", i, IndexedEnd(s, i))
    ELSE IF NamedEnd(s, i) # 0 THEN Tok("named", i, NamedEnd(s, i))
    ELSE Tok("text", i, i + 1)

\* the tokens of s from position i on, plain text left out
RECURSIVE Scan(_, _)
Scan(s, i) ==
    IF i > Len(s) THEN <<>>
    ELSE IF TokenAt(s, i).kind = "text" THEN Scan(s, i + 1)
    ELSE <<TokenAt(s, i)>> \o Scan(s, TokenAt(s, i).to)

WellFormed(s) == \A k \in DOMAIN Scan(s, 1) : Scan(s, 1)[k].kind # "open"

TokText(s, t) == SubSeq(s, t.from, t.to - 1)

\* the identifier a placeholder text stands for
IdOfIndexed(digits) == Index(atoi(digits))

IdOfText(p) == IF p[1] \in SigilChars THEN Name(p) ELSE IdOfIndexed(p)

SameId(x, y) ==
    /\ x.type = y.type
    /\ IF x.type = "Index" THEN x.index = y.index ELSE SameKey(x.name, y.name)

\* the placeholders of s outside strings and comments, left to right, each
\* as the parameter text the rendering callback receives for it
RECURSIVE ParamsOfTokens(_, _)
ParamsOfTokens(s, toks) ==
    IF toks = <<>> THEN <<>>
    ELSE (CASE Head(toks).kind = "indexed" ->
                 <<SubSeq(s, Head(toks).from + 1, Head(toks).to - 1)>>
            [] Head(toks).kind = "named" -> <<TokText(s, Head(toks))>>
            [] OTHER -> <<>>)
         \o ParamsOfTokens(s, Tail(toks))

LexParams(s) == ParamsOfTokens(s, Scan(s, 1))

\* the strings and block comments of s
Regions(s) ==
    {TokText(s, Scan(s, 1)[k]) :
        k \in {j \in DOMAIN Scan(s, 1) :
                  Scan(s, 1)[j].kind \in {"string", "block_comment"}}}

HasLineComment(s) ==
    \E k \in DOMAIN Scan(s, 1) : Scan(s, 1)[k].kind = "line_comment"

(***************************************************************************)
(* What a preprocessed SQL shows of its source                             *)
(***************************************************************************)
\* the calls of the two parameter rendering callbacks in the order of the
\* output, those inside the data of an if_seq included
RECURSIVE Rendered(_)
Rendered(out) ==
    IF out = <<>> THEN <<>>
    ELSE (CASE Head(out).t \in {"index", "named"} ->
                 <<[p |-> Head(out).p, n |-> Head(out).n]>>
            [] Head(out).t = "if_seq" -> Rendered(Head(out).d)
            [] OTHER -> <<>>)
         \o Rendered(Tail(out))

RenderedParams(out) == [k \in DOMAIN Rendered(out) |-> Rendered(out)[k].p]

\* the characters a preprocessed SQL copied, with the text handed to the
\* template callbacks, in the order of the output
RECURSIVE CopiedText(_)
CopiedText(out) ==
    IF out = <<>> THEN <<>>
    ELSE (CASE Head(out).t = "c" -> Head(out).p
            [] Head(out).t = "if_seq" -> CopiedText(Head(out).d) \o Head(out).p
            [] Head(out).t = "seq_gen" -> CopiedText(Head(out).d) \o Head(out).p
            [] OTHER -> <<"<param>">>)
         \o CopiedText(Tail(out))

\* a is a subsequence of b
RECURSIVE IsSubseq(_, _)
IsSubseq(a, b) ==
    IF a = <<>> THEN TRUE
    ELSE IF b = <<>> THEN FALSE
    ELSE IF Head(a) = Head(b) THEN IsSubseq(Tail(a), Tail(b))
    ELSE IsSubseq(a, Tail(b))

\* w occurs in s as a run of adjacent characters
OccursIn(w, s) == \E i \in 1..(Len(s) + 1) : LitAt(s, i, w)

\* the output expected of a text without templates and line comments:
\* every character copied, every placeholder outside strings and comments
\* replaced by one call of a rendering callback
RECURSIVE ExpectedShape(_, _, _)
ExpectedShape(s, i, toks) ==
    IF toks = <<>> THEN [k \in 1..(Len(s) + 1 - i) |-> <<"c", <<s[i + k - 1]>> >>]
    ELSE [k \in 1..(Head(toks).from - i) |-> <<"c", <<s[i + k - 1]>> >>]
         \o (CASE Head(toks).kind = "indexed" ->
                    << <<"param", SubSeq(s, Head(toks).from + 1, Head(toks).to - 1)>> >>
               [] Head(toks).kind = "named" ->
                    << <<"param", TokText(s, Head(toks))>> >>
               [] OTHER ->
                    [k \in 1..(Head(toks).to - Head(toks).from) |->
                        <<"c", <<s[Head(toks).from + k - 1]>> >>])
         \o ExpectedShape(s, Head(toks).to, Tail(toks))

Shape(out) ==
    [k \in DOMAIN out |->
        IF out[k].t = "c" THEN <<"c", out[k].p>>
        ELSE IF out[k].t \in {"index", "named"} THEN <<"param", out[k].p>>
        ELSE <<"template", out[k].p>>]

Plain(s) == ~HasLineComment(s) /\ \A k \in DOMAIN s : s[k] # "{"

\* a preprocess call has run on a well-formed text, not in pass-through mode
Substituted ==
    /\ op # "new"
    /\ ~use_native_parameters_syntax_
    /\ WellFormed(sql)

(***************************************************************************)
(* C1: in non-pass-through mode every indexed and named placeholder        *)
(* outside quoted strings and comments is replaced by one call of a        *)
(* rendering callback, and the text between the matches is copied          *)
(* unchanged and in order.                                                 *)
(***************************************************************************)
C1_PlaceholdersReplaced ==
    Substituted =>
        /\ IsSubseq(LexParams(sql), RenderedParams(preprocessed_sql_))
        /\ Plain(sql) =>
               Shape(preprocessed_sql_) = ExpectedShape(sql, 1, Scan(sql, 1))

(***************************************************************************)
(* C2: every quoted string and block comment of the text appears in the    *)
(* preprocessed SQL as it is in the input, and a text whose placeholders   *)
(* all lie inside strings and comments has nothing substituted and nothing *)
(* recorded.                                                               *)
(***************************************************************************)
C2_RegionsUntouched ==
    (op # "new" /\ WellFormed(sql)) =>
        /\ \A r \in Regions(sql) : OccursIn(r, CopiedText(preprocessed_sql_))
        /\ (LexParams(sql) = <<>> /\ ~HasLineComment(sql)) =>
               /\ Rendered(preprocessed_sql_) = <<>>
               /\ named_params_ = {}
               /\ indexed_params_ = {}

(***************************************************************************)
(* Identifiers, their occurrences in the source, their map entries and the *)
(* slots their occurrences were rendered with                              *)
(***************************************************************************)
LexIds(s) == {IdOfText(LexParams(s)[k]) : k \in DOMAIN LexParams(s)}

OccurrencesOf(id, s) ==
    Cardinality({k \in DOMAIN LexParams(s) : SameId(IdOfText(LexParams(s)[k]), id)})

EntriesOf(id) ==
    IF id.type = "Index"
    THEN {e \in indexed_params_ : e.key = id.index}
    ELSE {e \in named_params_ : SameKey(e.key, id.name)}

RECURSIVE SlotsOf(_, _)
SlotsOf(id, rendered) ==
    IF rendered = <<>> THEN <<>>
    ELSE (IF SameId(IdOfText(Head(rendered).p), id)
          THEN <<Head(rendered).n>> ELSE <<>>)
         \o SlotsOf(id, Tail(rendered))

RenderedSlotsOf(id) == SlotsOf(id, Rendered(preprocessed_sql_))

(***************************************************************************)
(* C3: after preprocessing, every identifier of the statement has exactly  *)
(* one map entry, and the slot list of the entry has one slot per          *)
(* occurrence of the identifier, in the order of the occurrences.          *)
(***************************************************************************)
C3_OneEntryOneSlotPerOccurrence ==
    Substituted =>
        \A id \in LexIds(sql) :
            /\ Cardinality(EntriesOf(id)) = 1
            /\ \A e \in EntriesOf(id) :
                   /\ Len(e.slots) = OccurrencesOf(id, sql)
                   /\ e.slots = RenderedSlotsOf(id)

(***************************************************************************)
(* C4: an identifier that appears twice in the statement has, with         *)
(* coalescing, one slot with which both occurrences are rendered, and      *)
(* without coalescing two distinct slots, both recorded in its entry.      *)
(***************************************************************************)
C4_TwiceCoalescedOrTwoSlots ==
    Substituted =>
        \A id \in LexIds(sql) :
            OccurrencesOf(id, sql) = 2 =>
                /\ Cardinality(EntriesOf(id)) = 1
                /\ \A e \in EntriesOf(id) :
                       IF supports_indexed_params
                       THEN /\ Len(e.slots) = 1
                            /\ RenderedSlotsOf(id) = <<e.slots[1], e.slots[1]>>
                       ELSE /\ Len(e.slots) = 2
                            /\ e.slots[1] # e.slots[2]
                            /\ RenderedSlotsOf(id) = e.slots

(***************************************************************************)
(* C5: in non-pass-through mode do_for_param_indexes calls the callback    *)
(* once per slot recorded for the identifier, in the recorded order, when  *)
(* the map holds the identifier; when it does not, the call ends with a    *)
(* parameter-not-found error and the callback is not called.               *)
(***************************************************************************)
C5_DoForParamIndexes ==
    (op = "do_for_param_indexes" /\ ~use_native_parameters_syntax_) =>
        IF EntriesOf(arg) = {}
        THEN thrown = "ParameterNotFoundException" /\ calls = <<>>
        ELSE thrown = "" /\ \A e \in EntriesOf(arg) : calls = e.slots

\* a name recorded with two slots has been looked up
C5_Witness ==
    /\ op = "do_for_param_indexes"
    /\ ~use_native_parameters_syntax_
    /\ arg.type = "Name"
    /\ Len(calls) = 2
    /\ \E e \in EntriesOf(arg) : Len(e.slots) = 2

(***************************************************************************)
(* Statements.  A statement object is the record of its fields, of its     *)
(* preprocessor and of what the database holds for it; every member        *)
(* function maps the object before the call to the object after it.        *)
(***************************************************************************)
MaxRows == 2

MaxParams == 1

Backends == {"pg", "sqlite", "fb"}

\* the SQL texts handed to prepare and execute
Statements == { <<":", "a", "?", "1">>, <<":", "a", ":", "A">> }

\* the SQL texts of the run that sets parameter values: an identifier with
\* three occurrences, one with two next to another one, two ordinals
SetTexts ==
    { <<":", "a", ":", "A", ":", "a">>, <<":", "a", "?", "1", ":", "a">>,
      <<"?", "1", "?", "1">> }

\* the identifiers handed to the parameter accessors
Params == {Index(1), Name(<<":", "a">>), Name(<<":", "A">>), Name(<<"@", "a">>)}

\* The accessors of a statement fall into five groups; the functions of a
\* group begin with the same checks and differ in the type of the value:
\*   column_info       get_columns_count, get_column_type, get_column_name
\*   column_value      is_null, get_int32_opt, get_int64_opt, get_float_opt,
\*                     get_double_opt, get_str_utf8_opt, get_wstr_opt,
\*                     get_date_opt, get_time_opt, get_timestamp_opt,
\*                     get_blob_size, get_blob_data
\*   get_params_count
\*   get_param_type
\*   set_param         set_null, set_int32_opt, set_int64_opt, set_float_opt,
\*                     set_double_opt, set_u8str_opt, set_wstr_opt,
\*                     set_date_opt, set_time_opt, set_timestamp_opt, set_blob
\* The functions without _opt of the base class call the _opt ones.
ColumnAccessors == {"column_info", "column_value"}

ParamAccessors == {"get_params_count", "get_param_type", "set_param"}

This ==
    [preprocessed_sql_ |-> preprocessed_sql_,
     named_params_ |-> named_params_,
     indexed_params_ |-> indexed_params_,
     use_native_parameters_syntax_ |-> use_native_parameters_syntax_,
     sql |-> sql,
     supports_indexed_params |-> supports_indexed_params,
     state_ |-> state_,
     result_contains_first_row_data_ |-> result_contains_first_row_data_,
     contains_data_ |-> contains_data_,
     stmt_ |-> stmt_,
     must_be_reseted_ |-> must_be_reseted_,
     step_called_ |-> step_called_,
     last_step_result_ |-> last_step_result_,
     cursor_opened_ |-> cursor_opened_,
     has_data_ |-> has_data_,
     type_ |-> type_,
     params_count |-> params_count,
     server_stmt |-> server_stmt,
     cursor |-> cursor,
     stream_len |-> stream_len,
     pulled |-> pulled]

\* how a call ends: the object after it, the exception it threw ("" when it
\* returned), what it returned and the parameter slots it reached
Done(self, exception, value, slots) ==
    [self |-> self, thrown |-> exception, ret |-> value, calls |-> slots]

Returned(self) == Done(self, "", "none", <<>>)

Threw(self, exception) == Done(self, exception, "none", <<>>)

Bool(b) == IF b THEN "true" ELSE "false"

\* SqlPreprocessor::preprocess clears the text and the maps of the object
\* before it reads the SQL, so what it leaves in them is a function of its
\* arguments: its values on the texts handed to the statements
Preprocessed ==
    [text \in Statements \cup SetTexts, use_native \in BOOLEAN,
     supports_indexed \in BOOLEAN,
     multiline \in BOOLEAN |->
        preprocess([out |-> <<>>, named |-> {}, indexed |-> {}],
                   text, use_native, supports_indexed, multiline)]

\* preprocess that leaves the entries of the text before in the maps
sql_preprocessor_preprocess_keeps_maps(self, text, use_native, supports_indexed) ==
    With(Preprocessed[text, use_native, supports_indexed, regex_multiline],
         LAMBDA r :
             [self EXCEPT !.preprocessed_sql_ = r.out,
                          !.named_params_ = @ \cup r.named,
                          !.indexed_params_ = @ \cup r.indexed,
                          !.use_native_parameters_syntax_ = use_native,
                          !.sql = text,
                          !.supports_indexed_params = supports_indexed])

\* sql_preprocessor_.preprocess(sql, use_native, supports_indexed, actions)
sql_preprocessor_preprocess(self, text, use_native, supports_indexed) ==
    With(Preprocessed[text, use_native, supports_indexed, regex_multiline],
         LAMBDA r :
             [self EXCEPT !.preprocessed_sql_ = r.out,
                          !.named_params_ = r.named,
                          !.indexed_params_ = r.indexed,
                          !.use_native_parameters_syntax_ = use_native,
                          !.sql = text,
                          !.supports_indexed_params = supports_indexed])

\* sql_preprocessor_.do_for_param_indexes(param, fun)
sql_preprocessor_do_for_param_indexes(self, param) ==
    do_for_param_indexes(self.use_native_parameters_syntax_,
                         self.named_params_, self.indexed_params_, param)

\* the parameters the database reports for a prepared text: one for each
\* slot of a preprocessed text, reported for a text in the native syntax
\* of the database
SlotsOfText(out) == {Rendered(out)[k].n : k \in DOMAIN Rendered(out)}

ReportedParams(self, reported) ==
    IF self.use_native_parameters_syntax_ THEN reported
    ELSE Cardinality(SlotsOfText(self.preprocessed_sql_))

\* fun applied to the slots in order: it throws at the first slot for which
\* slot + shift is no element of 1..count
ApplyToSlots(self, slots, shift, count, exception) ==
    LET bad == {k \in DOMAIN slots :
                   slots[k] + shift < 1 \/ slots[k] + shift > count}
    IN  IF bad = {} THEN Done(self, "", "none", slots)
        ELSE Done(self, exception, "none",
                  SubSeq(slots, 1, (CHOOSE k \in bad : \A j \in bad : k <= j) - 1))

(***************************************************************************)
(* PostgreSQL.  The connection queues the results of the query sent last:  *)
(* one PGRES_SINGLE_TUPLE for each row, then PGRES_TUPLES_OK, then NULL; a *)
(* query the server rejects queues a PGRES_FATAL_ERROR.                    *)
(***************************************************************************)
PQgetResult(self) ==
    IF self.cursor = "error" THEN "PGRES_FATAL_ERROR"
    ELSE IF self.cursor # "open" THEN "NULL"
    ELSE IF self.pulled < self.stream_len THEN "PGRES_SINGLE_TUPLE"
    ELSE "PGRES_TUPLES_OK"

\* the connection after the PQgetResult call
Taken(self) ==
    IF PQgetResult(self) = "PGRES_SINGLE_TUPLE"
    THEN [self EXCEPT !.pulled = @ + 1]
    ELSE [self EXCEPT !.cursor = "none", !.stream_len = 0, !.pulled = 0]

\* PgConnectionImpl::skip_previous_data
skip_previous_data(self) ==
    [self EXCEPT !.cursor = "none", !.stream_len = 0, !.pulled = 0]

\* PQsendQueryPrepared for the unnamed statement: rows rows come back, an
\* error when the server holds no such statement
PQsendQueryPrepared(self, rows) ==
    IF self.server_stmt
    THEN [self EXCEPT !.cursor = "open", !.stream_len = rows, !.pulled = 0]
    ELSE [self EXCEPT !.cursor = "error", !.stream_len = 0, !.pulled = 0]

\* PQsendQueryParams: the text replaces the unnamed statement; ok tells
\* whether the server accepts it
PQsendQueryParams(self, ok, rows) ==
    PQsendQueryPrepared([self EXCEPT !.server_stmt = ok], rows)

\* a state check that rejects only the Error state
PgStatementImpl_check_is_not_in_error_state(self) ==
    IF self.state_ = "Error" THEN "WrongSeqException" ELSE ""

PgStatementImpl_check_is_in_prepared_or_executed_state(self) ==
    IF self.state_ # "Executed" /\ self.state_ # "Prepared"
    THEN "WrongSeqException" ELSE ""

PgStatementImpl_check_contains_data(self) ==
    IF ~self.contains_data_ \/ self.result_contains_first_row_data_
    THEN "WrongSeqException" ELSE ""

PgStatementImpl_prepare(self, text, use_native, ok, nparams) ==
    With(sql_preprocessor_preprocess(skip_previous_data(self), text, use_native, TRUE),
         LAMBDA s1 :
             IF ~ok THEN Threw([s1 EXCEPT !.server_stmt = FALSE], "Exception")
             ELSE Returned([s1 EXCEPT !.server_stmt = TRUE,
                                      !.params_count = ReportedParams(s1, nparams),
                                      !.state_ = "Prepared"]))

PgStatementImpl_fetch_and_check_if_result_is_end_of_tuples(self) ==
    CASE PQgetResult(self) = "NULL" -> Returned(Taken(self))
      [] PQgetResult(self) = "PGRES_FATAL_ERROR" -> Threw(Taken(self), "Exception")
      [] PQgetResult(self) = "PGRES_TUPLES_OK" ->
             Returned([Taken(self) EXCEPT !.contains_data_ = FALSE])
      [] OTHER -> Returned([Taken(self) EXCEPT !.contains_data_ = TRUE])

\* the common end of both execute functions, the query being sent
PgExecuted(sent) ==
    With(PgStatementImpl_fetch_and_check_if_result_is_end_of_tuples(sent),
         LAMBDA r :
             IF r.thrown # "" THEN r
             ELSE Returned([r.self EXCEPT !.result_contains_first_row_data_ = TRUE,
                                          !.state_ = "Executed"]))

PgCleared(self) ==
    skip_previous_data([self EXCEPT !.result_contains_first_row_data_ = FALSE,
                                    !.contains_data_ = FALSE])

PgStatementImpl_execute_sql(self, text, ok, rows) ==
    With(sql_preprocessor_preprocess(PgCleared(self), text, TRUE, TRUE),
         LAMBDA s1 : PgExecuted(PQsendQueryParams(s1, ok, rows)))

PgStatementImpl_execute(self, rows) ==
    PgExecuted(PQsendQueryPrepared(PgCleared(self), rows))

PgStatementImpl_fetch(self) ==
    IF self.result_contains_first_row_data_
    THEN Done([self EXCEPT !.result_contains_first_row_data_ = FALSE],
              "", Bool(self.contains_data_), <<>>)
    ELSE IF PgStatementImpl_check_contains_data(self) # ""
    THEN Threw(self, PgStatementImpl_check_contains_data(self))
    ELSE LET r == PgStatementImpl_fetch_and_check_if_result_is_end_of_tuples(self)
         IN  IF r.thrown # "" THEN r
             ELSE Done(r.self, "", Bool(r.self.contains_data_), <<>>)

\* set_null, set_param_opt_impl, set_date_opt, set_time_opt,
\* set_timestamp_opt, set_blob: param_values_.at(param_index - 1);
\* get_param_type: param_types_.at(param_index); get_params_count
PgStatementImpl_param(self, f, param) ==
    IF PgStatementImpl_check_is_in_prepared_or_executed_state(self) # ""
    THEN Threw(self, PgStatementImpl_check_is_in_prepared_or_executed_state(self))
    ELSE IF f = "get_params_count" THEN Returned(self)
    ELSE LET r == sql_preprocessor_do_for_param_indexes(self, param)
         IN  IF r.thrown # "" THEN Threw(self, r.thrown)
             ELSE ApplyToSlots(self, r.calls,
                               IF f = "get_param_type" THEN 1 ELSE 0,
                               self.params_count, "out_of_range")

(***************************************************************************)
(* SQLite.  A prepared statement is a virtual machine: sqlite3_step starts *)
(* a run when none is under way and returns SQLITE_ROW for each of its     *)
(* rows, then SQLITE_DONE; sqlite3_reset ends the run.                     *)
(***************************************************************************)
sqlite3_step(self, rows) ==
    IF self.cursor = "open"
    THEN IF self.pulled < self.stream_len
         THEN [self EXCEPT !.pulled = @ + 1, !.last_step_result_ = "SQLITE_ROW"]
         ELSE [self EXCEPT !.cursor = "eof", !.stream_len = 0, !.pulled = 0,
                           !.last_step_result_ = "SQLITE_DONE"]
    ELSE IF rows >= 1
         THEN [self EXCEPT !.cursor = "open", !.stream_len = rows, !.pulled = 1,
                           !.last_step_result_ = "SQLITE_ROW"]
         ELSE [self EXCEPT !.cursor = "eof", !.stream_len = 0, !.pulled = 0,
                           !.last_step_result_ = "SQLITE_DONE"]

sqlite3_reset(self) ==
    [self EXCEPT !.cursor = "none", !.stream_len = 0, !.pulled = 0]

\* the parameter table sqlite3_prepare_v2 builds for the placeholders ps of
\* a text, in their order: ?N has the number N, a name it has not met the
\* number after the largest so far; names are compared as they are written
RECURSIVE sqlite3_parameters(_, _)
sqlite3_parameters(ps, t) ==
    IF ps = <<>> THEN t
    ELSE sqlite3_parameters(Tail(ps),
             IF Head(ps)[1] \in SigilChars
             THEN IF \E e \in t.names : e.key = Head(ps) THEN t
                  ELSE [count |-> t.count + 1,
                        names |-> t.names \cup
                                  {[key |-> Head(ps), index |-> t.count + 1]}]
             ELSE [t EXCEPT !.count = IF atoi(Head(ps)) > @ THEN atoi(Head(ps)) ELSE @])

\* the table of the statement the object holds: the preprocessed text
\* spells every placeholder as the source text does
SQLiteParameters(self) ==
    sqlite3_parameters(
        IF self.use_native_parameters_syntax_ THEN LexParams(self.sql)
        ELSE RenderedParams(self.preprocessed_sql_),
        [count |-> 0, names |-> {}])

sqlite3_bind_parameter_index(self, name) ==
    LET found == {e \in SQLiteParameters(self).names : e.key = name}
    IN  IF found = {} THEN 0 ELSE (CHOOSE e \in found : TRUE).index

SQLiteStatementImpl_check_is_prepared(self) ==
    IF self.stmt_ = 0 THEN "WrongSeqException" ELSE ""

SQLiteStatementImpl_check_contains_data(self) ==
    IF ~self.contains_data_ THEN "WrongSeqException" ELSE ""

SQLiteStatementImpl_close(self) ==
    IF self.stmt_ = 0 THEN self
    ELSE [sqlite3_reset(self) EXCEPT !.stmt_ = 0,
                                     !.must_be_reseted_ = FALSE,
                                     !.step_called_ = FALSE,
                                     !.contains_data_ = FALSE]

SQLiteStatementImpl_prepare(self, text, use_native, ok) ==
    With(sql_preprocessor_preprocess(self, text, use_native, FALSE),
         LAMBDA s1 :
             IF ~ok THEN Threw(SQLiteStatementImpl_close(s1), "Exception")
             ELSE Returned([SQLiteStatementImpl_close(s1)
                               EXCEPT !.stmt_ = 1,
                                      !.params_count = SQLiteParameters(s1).count]))

\* reset_statement that clears the flag and leaves the VM where it is
SQLiteStatementImpl_reset_statement_flag_only(self) ==
    [self EXCEPT !.must_be_reseted_ = FALSE]

SQLiteStatementImpl_reset_statement(self) ==
    IF ~self.must_be_reseted_ THEN self
    ELSE [sqlite3_reset(self) EXCEPT !.must_be_reseted_ = FALSE]

SQLiteStatementImpl_internal_execute(self, do_reset_if_needed, rows) ==
    [sqlite3_step(IF do_reset_if_needed
                  THEN SQLiteStatementImpl_reset_statement(self) ELSE self,
                  rows)
        EXCEPT !.must_be_reseted_ = TRUE]

SQLiteStatementImpl_execute(self, rows) ==
    IF SQLiteStatementImpl_check_is_prepared(self) # ""
    THEN Threw(self, SQLiteStatementImpl_check_is_prepared(self))
    ELSE Returned([SQLiteStatementImpl_internal_execute(self, TRUE, rows)
                      EXCEPT !.step_called_ = TRUE])

SQLiteStatementImpl_execute_sql(self, text, ok, rows) ==
    With(SQLiteStatementImpl_prepare(self, text, TRUE, ok),
         LAMBDA r :
             IF r.thrown # "" THEN r
             ELSE Returned([SQLiteStatementImpl_internal_execute(r.self, TRUE, rows)
                               EXCEPT !.step_called_ = TRUE]))

\* the end of fetch: contains_data_ = (last_step_result_ == SQLITE_ROW)
SQLiteFetched(self) ==
    Done([self EXCEPT !.contains_data_ = (self.last_step_result_ = "SQLITE_ROW")],
         "", Bool(self.last_step_result_ = "SQLITE_ROW"), <<>>)

SQLiteStatementImpl_fetch(self, rows) ==
    IF SQLiteStatementImpl_check_is_prepared(self) # ""
    THEN Threw(self, SQLiteStatementImpl_check_is_prepared(self))
    ELSE IF self.step_called_
    THEN SQLiteFetched([self EXCEPT !.step_called_ = FALSE])
    ELSE IF self.last_step_result_ = "SQLITE_DONE"
    THEN Threw(self, "WrongSeqException")
    ELSE SQLiteFetched(SQLiteStatementImpl_internal_execute(self, FALSE, rows))

SQLiteStatementImpl_get_param_index(self, param) ==
    IF param.type = "Index" THEN param.index
    ELSE sqlite3_bind_parameter_index(self, param.name)

\* get_params_count and get_param_type check only that a statement is
\* prepared; every set function resets the statement, finds the number of
\* the parameter and binds it
SQLiteStatementImpl_param(self, f, param) ==
    IF SQLiteStatementImpl_check_is_prepared(self) # ""
    THEN Threw(self, SQLiteStatementImpl_check_is_prepared(self))
    ELSE IF f \in {"get_params_count", "get_param_type"} THEN Returned(self)
    ELSE IF SQLiteStatementImpl_get_param_index(self, param) = 0 /\ param.type = "Name"
    THEN Threw(SQLiteStatementImpl_reset_statement(self), "ParameterNotFoundException")
    ELSE ApplyToSlots(SQLiteStatementImpl_reset_statement(self),
                      <<SQLiteStatementImpl_get_param_index(self, param)>>,
                      0, self.params_count, "Exception")

(***************************************************************************)
(* Firebird.  A statement handle is allocated, then prepared; executing a  *)
(* select opens a cursor; isc_dsql_fetch returns 0 for each row, 100 at    *)
(* the end, isc_req_sync past the end and an error without a cursor.       *)
(***************************************************************************)
\* isc_dsql_free_statement with DSQL_drop and with DSQL_close
isc_dsql_free_statement(self, option) ==
    IF option = "DSQL_drop"
    THEN [self EXCEPT !.server_stmt = FALSE, !.cursor = "none",
                      !.stream_len = 0, !.pulled = 0]
    ELSE [self EXCEPT !.cursor = "none", !.stream_len = 0, !.pulled = 0]

isc_dsql_fetch(self) ==
    IF self.cursor = "open"
    THEN IF self.pulled < self.stream_len THEN "0" ELSE "100"
    ELSE IF self.cursor = "eof" THEN "isc_req_sync"
    ELSE "error"

FbStatementImpl_check_is_prepared(self) ==
    IF self.stmt_ = 0 THEN "WrongSeqException" ELSE ""

FbStatementImpl_check_has_data(self) ==
    IF ~self.has_data_ THEN "WrongSeqException" ELSE ""

FbStatementImpl_close(self) ==
    IF self.stmt_ = 0 THEN self
    ELSE [isc_dsql_free_statement(self, "DSQL_drop")
             EXCEPT !.stmt_ = 0, !.cursor_opened_ = FALSE]

FbStatementImpl_close_cursor(self) ==
    IF ~self.cursor_opened_ \/ self.stmt_ = 0 THEN self
    ELSE [isc_dsql_free_statement(self, "DSQL_close")
             EXCEPT !.cursor_opened_ = FALSE, !.has_data_ = FALSE]

\* ok: isc_dsql_prepare accepts the text; is_select: it is a select;
\* nparams: the size isc_dsql_describe_bind reports for a native text
FbStatementImpl_prepare_impl(self, ok, is_select, nparams) ==
    LET s1 == [FbStatementImpl_close(self) EXCEPT !.has_data_ = FALSE, !.stmt_ = 1]
    IN  IF ~ok THEN Threw(s1, "Exception")
        ELSE Returned([s1 EXCEPT !.server_stmt = TRUE,
                                 !.type_ = IF is_select THEN "Select" ELSE "Other",
                                 !.params_count = ReportedParams(s1, nparams)])

FbStatementImpl_prepare(self, text, use_native, ok, is_select, nparams) ==
    With(sql_preprocessor_preprocess(self, text, use_native, FALSE),
         LAMBDA s1 : FbStatementImpl_prepare_impl(s1, ok, is_select, nparams))

FbStatementImpl_internal_execute(self, rows) ==
    IF FbStatementImpl_check_is_prepared(self) # ""
    THEN Threw(self, FbStatementImpl_check_is_prepared(self))
    ELSE LET s1 == FbStatementImpl_close_cursor(self)
         IN  IF ~s1.server_stmt THEN Threw(s1, "Exception")
             ELSE IF s1.type_ = "Select"
             THEN Returned([s1 EXCEPT !.cursor = "open", !.stream_len = rows,
                                      !.pulled = 0, !.cursor_opened_ = TRUE])
             ELSE Returned(s1)

FbStatementImpl_execute(self, rows) == FbStatementImpl_internal_execute(self, rows)

FbStatementImpl_execute_sql(self, text, ok, is_select, nparams, rows) ==
    With(FbStatementImpl_prepare(self, text, TRUE, ok, is_select, nparams),
         LAMBDA r :
             IF r.thrown # "" THEN r
             ELSE FbStatementImpl_internal_execute(r.self, rows))

FbStatementImpl_fetch(self) ==
    IF FbStatementImpl_check_is_prepared(self) # ""
    THEN Threw(self, FbStatementImpl_check_is_prepared(self))
    ELSE LET s1 == [self EXCEPT !.has_data_ = FALSE]
         IN  CASE isc_dsql_fetch(s1) = "0" ->
                      Done([s1 EXCEPT !.pulled = @ + 1, !.cursor_opened_ = TRUE,
                                      !.has_data_ = TRUE], "", "true", <<>>)
               [] isc_dsql_fetch(s1) = "100" ->
                      Done([s1 EXCEPT !.cursor = "eof", !.stream_len = 0,
                                      !.pulled = 0, !.cursor_opened_ = TRUE],
                           "", "false", <<>>)
               [] isc_dsql_fetch(s1) = "isc_req_sync" ->
                      Threw(s1, "WrongSeqException")
               [] OTHER -> Threw(s1, "Exception")

\* get_params_count; get_param_type, set_null and set_param_opt_impl with
\* the other set functions: in_sqlda_.check_index for every slot
FbStatementImpl_param(self, f, param) ==
    IF FbStatementImpl_check_is_prepared(self) # ""
    THEN Threw(self, FbStatementImpl_check_is_prepared(self))
    ELSE IF f = "get_params_count" THEN Returned(self)
    ELSE LET r == sql_preprocessor_do_for_param_indexes(self, param)
         IN  IF r.thrown # "" THEN Threw(self, r.thrown)
             ELSE ApplyToSlots(self, r.calls, 0, self.params_count,
                               "WrongArgumentException")

(***************************************************************************)
(* The checks the column accessors of the three classes begin with         *)
(***************************************************************************)
\* get_columns_count, get_column_type, get_column_name
ColumnInfoCheck(self, kind) ==
    CASE kind = "pg" -> PgStatementImpl_check_is_in_prepared_or_executed_state(self)
      [] kind = "sqlite" -> SQLiteStatementImpl_check_is_prepared(self)
      [] OTHER -> FbStatementImpl_check_is_prepared(self)

\* is_null, get_value_opt_impl, get_dt_opt_impl, get_blob_size, get_blob_data
ColumnValueCheck(self, kind) ==
    CASE kind = "pg" -> PgStatementImpl_check_contains_data(self)
      [] kind = "sqlite" ->
             IF SQLiteStatementImpl_check_is_prepared(self) # ""
             THEN SQLiteStatementImpl_check_is_prepared(self)
             ELSE SQLiteStatementImpl_check_contains_data(self)
      [] OTHER ->
             IF FbStatementImpl_check_is_prepared(self) # ""
             THEN FbStatementImpl_check_is_prepared(self)
             ELSE FbStatementImpl_check_has_data(self)

(***************************************************************************)
(* The statement run: one statement object of one of the three classes,    *)
(* any sequence of calls of its member functions                           *)
(***************************************************************************)
Init ==
    /\ regex_multiline \in BOOLEAN
    /\ backend \in Backends
    /\ preprocessed_sql_ = <<>>
    /\ named_params_ = {}
    /\ indexed_params_ = {}
    /\ use_native_parameters_syntax_ = FALSE
    /\ sql = <<>>
    /\ supports_indexed_params = FALSE
    /\ op = "new"
    /\ arg = Index(0)
    /\ calls = <<>>
    /\ thrown = ""
    /\ ret = "none"
    /\ NewStatement
    /\ NewConnection
    /\ NewBuffer

\* the call name(a) ended as r tells: the members of the statement
Assigned(name, a, r) ==
    /\ op' = name
    /\ arg' = a
    /\ calls' = r.calls
    /\ thrown' = r.thrown
    /\ ret' = r.ret
    /\ preprocessed_sql_' = r.self.preprocessed_sql_
    /\ named_params_' = r.self.named_params_
    /\ indexed_params_' = r.self.indexed_params_
    /\ use_native_parameters_syntax_' = r.self.use_native_parameters_syntax_
    /\ sql' = r.self.sql
    /\ supports_indexed_params' = r.self.supports_indexed_params
    /\ state_' = r.self.state_
    /\ result_contains_first_row_data_' = r.self.result_contains_first_row_data_
    /\ contains_data_' = r.self.contains_data_
    /\ stmt_' = r.self.stmt_
    /\ must_be_reseted_' = r.self.must_be_reseted_
    /\ step_called_' = r.self.step_called_
    /\ last_step_result_' = r.self.last_step_result_
    /\ cursor_opened_' = r.self.cursor_opened_
    /\ has_data_' = r.self.has_data_
    /\ type_' = r.self.type_
    /\ params_count' = r.self.params_count
    /\ server_stmt' = r.self.server_stmt
    /\ cursor' = r.self.cursor
    /\ stream_len' = r.self.stream_len
    /\ pulled' = r.self.pulled
    /\ UNCHANGED <<regex_multiline, backend, bufVars, tranVars>>

\* a call that leaves the values of the input parameters and the columns
\* alone
Call(name, a, r) ==
    /\ Assigned(name, a, r)
    /\ UNCHANGED <<sqldaVars, colsVars>>

\* a query whose rows fetch delivers: every statement of PostgreSQL and
\* SQLite, a select of Firebird
IsQuery(self) == backend = "fb" => self.type_ = "Select"

\* what an execute() finds of the row stream of the execute before it
StreamSoFar ==
    IF total = -1 THEN "none"
    ELSE IF fetches = 0 THEN "unfetched"
    ELSE IF fetches <= total THEN "partial"
    ELSE "exhausted"

Prepared(text, r) ==
    /\ Call("prepare", Index(0), r)
    /\ ever_used' = TRUE
    /\ replaced' = (ever_used /\ sql # r.self.sql)
    /\ total' = -1
    /\ fetches' = 0
    /\ row_ok' = FALSE
    /\ run' = -1
    /\ prev_stream' = "none"

ExecutedSql(text, rows, r) ==
    /\ Call("execute_sql", Index(0), r)
    /\ ever_used' = TRUE
    /\ replaced' = (ever_used /\ sql # r.self.sql)
    /\ total' = IF r.thrown = "" /\ IsQuery(r.self) THEN rows ELSE -1
    /\ fetches' = 0
    /\ row_ok' = FALSE
    /\ run' = IF r.thrown = "" /\ IsQuery(r.self) THEN 0 ELSE -1
    /\ prev_stream' = "none"

Executed(rows, r) ==
    /\ Call("execute", Index(0), r)
    /\ ever_used' = TRUE
    /\ total' = IF r.thrown = "" /\ IsQuery(r.self) THEN rows ELSE -1
    /\ fetches' = 0
    /\ row_ok' = FALSE
    /\ run' = IF r.thrown = "" /\ IsQuery(r.self) THEN 0 ELSE -1
    /\ prev_stream' = IF r.thrown = "" /\ IsQuery(r.self) THEN StreamSoFar ELSE "none"
    /\ UNCHANGED replaced

\* fetch calls are counted up to the second one past the end of the rows;
\* prev_stream lasts until the first fetch of the run
Fetched(r) ==
    /\ Call("fetch", Index(0), r)
    /\ fetches' = IF total >= 0 /\ fetches < total + 2 THEN fetches + 1 ELSE fetches
    /\ row_ok' = (r.ret = "true")
    /\ run' = IF run >= 0 /\ run < total + 2 THEN run + 1 ELSE run
    /\ prev_stream' = IF run = 0 THEN prev_stream ELSE "none"
    /\ UNCHANGED <<ever_used, replaced, total>>

ColumnAccessed(f, a, r) ==
    /\ Call(f, a, r)
    /\ UNCHANGED historyVars

ParamAccessed(f, a, r) ==
    /\ Call(f, a, r)
    /\ run' = -1
    /\ prev_stream' = "none"
    /\ UNCHANGED <<ever_used, replaced, total, fetches, row_ok>>

\* what the database answers: whether it accepts the text, and for a text
\* it accepts the number of parameters of a native text, whether it is a
\* select, the number of its rows
Answers == {FALSE, TRUE}

NativeParams(use_native, ok) == IF use_native /\ ok THEN 0..MaxParams ELSE {0}

Selects(ok) == IF ok THEN BOOLEAN ELSE {FALSE}

Rows(ok) == IF ok THEN 0..MaxRows ELSE {0}

PgPrepare ==
    /\ backend = "pg"
    /\ \E text \in Statements, use_native \in BOOLEAN, ok \in Answers :
         \E nparams \in NativeParams(use_native, ok) :
           \E r \in {PgStatementImpl_prepare(This, text, use_native, ok, nparams)} :
               Prepared(text, r)

SQLitePrepare ==
    /\ backend = "sqlite"
    /\ \E text \in Statements, use_native \in BOOLEAN, ok \in Answers :
           \E r \in {SQLiteStatementImpl_prepare(This, text, use_native, ok)} :
               Prepared(text, r)

FbPrepare ==
    /\ backend = "fb"
    /\ \E text \in Statements, use_native \in BOOLEAN, ok \in Answers :
         \E is_select \in Selects(ok), nparams \in NativeParams(use_native, ok) :
           \E r \in {FbStatementImpl_prepare(This, text, use_native, ok, is_select, nparams)} :
               Prepared(text, r)

PgExecuteSql ==
    /\ backend = "pg"
    /\ \E text \in Statements, ok \in Answers :
         \E rows \in Rows(ok) :
           \E r \in {PgStatementImpl_execute_sql(This, text, ok, rows)} :
               ExecutedSql(text, rows, r)

SQLiteExecuteSql ==
    /\ backend = "sqlite"
    /\ \E text \in Statements, ok \in Answers :
         \E rows \in Rows(ok) :
           \E r \in {SQLiteStatementImpl_execute_sql(This, text, ok, rows)} :
               ExecutedSql(text, rows, r)

FbExecuteSql ==
    /\ backend = "fb"
    /\ \E text \in Statements, ok \in Answers :
         \E is_select \in Selects(ok), nparams \in NativeParams(TRUE, ok),
            rows \in Rows(ok) :
           \E r \in {FbStatementImpl_execute_sql(This, text, ok, is_select, nparams, rows)} :
               ExecutedSql(text, rows, r)

PgExecute ==
    /\ backend = "pg"
    /\ \E rows \in 0..MaxRows : 
           \E r \in {PgStatementImpl_execute(This, rows)} : Executed(rows, r)

SQLiteExecute ==
    /\ backend = "sqlite"
    /\ \E rows \in 0..MaxRows : 
           \E r \in {SQLiteStatementImpl_execute(This, rows)} : Executed(rows, r)

FbExecute ==
    /\ backend = "fb"
    /\ \E rows \in 0..MaxRows : 
           \E r \in {FbStatementImpl_execute(This, rows)} : Executed(rows, r)

PgFetch ==
    /\ backend = "pg"
    /\ \E r \in {PgStatementImpl_fetch(This)} : Fetched(r)

SQLiteFetch ==
    /\ backend = "sqlite"
    /\ \E rows \in 0..MaxRows :
           \E r \in {SQLiteStatementImpl_fetch(This, rows)} : Fetched(r)

FbFetch ==
    /\ backend = "fb"
    /\ \E r \in {FbStatementImpl_fetch(This)} : Fetched(r)

\* a column accessor that passes its checks reads column 1 of the row
ColumnInfo ==
    \E r \in {Threw(This, ColumnInfoCheck(This, backend))} :
        ColumnAccessed("column_info", Index(1), r)

ColumnValue ==
    \E r \in {Threw(This, ColumnValueCheck(This, backend))} :
        ColumnAccessed("column_value", Index(1), r)

StatementImpl_param(self, kind, f, param) ==
    CASE kind = "pg" -> PgStatementImpl_param(self, f, param)
      [] kind = "sqlite" -> SQLiteStatementImpl_param(self, f, param)
      [] OTHER -> FbStatementImpl_param(self, f, param)

Parameter ==
    \E f \in ParamAccessors :
      \E param \in IF f = "get_params_count" THEN {Index(0)} ELSE Params :
        \E r \in {StatementImpl_param(This, backend, f, param)} :
            ParamAccessed(f, param, r)

Next ==
    \/ PgPrepare \/ SQLitePrepare \/ FbPrepare
    \/ PgExecuteSql \/ SQLiteExecuteSql \/ FbExecuteSql
    \/ PgExecute \/ SQLiteExecute \/ FbExecute
    \/ PgFetch \/ SQLiteFetch \/ FbFetch
    \/ ColumnInfo \/ ColumnValue \/ Parameter

Spec == Init /\ [][Next]_vars

(***************************************************************************)
(* C6: after any sequence of prepare and text-execute calls the parameter  *)
(* map is the map of the SQL text preprocessed last: both maps equal what  *)
(* a preprocess call on a new preprocessor leaves for that text, whatever  *)
(* was preprocessed before, no other call changes them, and a parameter    *)
(* accessor of the classes that look identifiers up in the map finds an    *)
(* identifier exactly if this text has it.                                 *)
(***************************************************************************)
MapOfLastText ==
    preprocess([out |-> <<>>, named |-> {}, indexed |-> {}], sql,
               use_native_parameters_syntax_, supports_indexed_params,
               regex_multiline)

Resolves(maps, id) ==
    IF id.type = "Index" THEN \E e \in maps.indexed : e.key = id.index
    ELSE \E e \in maps.named : SameKey(e.key, id.name)

C6_MapOfLastText ==
    /\ named_params_ = MapOfLastText.named
    /\ indexed_params_ = MapOfLastText.indexed
    /\ (/\ op \in {"get_param_type", "set_param"}
        /\ backend \in {"pg", "fb"}
        /\ ~use_native_parameters_syntax_
        /\ thrown # "WrongSeqException")
       => (thrown = "ParameterNotFoundException" <=> ~Resolves(MapOfLastText, arg))

\* the text prepared last replaced the other text of the run, which has ?1
C6_Witness ==
    /\ op = "set_param"
    /\ arg = Index(1)
    /\ thrown = "ParameterNotFoundException"
    /\ ~use_native_parameters_syntax_
    /\ replaced
    /\ sql = <<":", "a", ":", "A">>
    /\ named_params_ # {}
    /\ indexed_params_ = {}

(***************************************************************************)
(* C7: on a statement on which neither prepare nor execute has been        *)
(* called, every column accessor, every parameter accessor and fetch end   *)
(* with WrongSeqException, in each of the three classes.                   *)
(***************************************************************************)
C7_NeverPreparedIsWrongSeq ==
    (~ever_used /\ op \in ColumnAccessors \cup ParamAccessors \cup {"fetch"})
        => thrown = "WrongSeqException"

C7_Witness ==
    /\ ~ever_used
    /\ backend = "pg"
    /\ op = "set_param"
    /\ thrown = "WrongSeqException"

(***************************************************************************)
(* C8: a column value accessor returns only if the last fetch since the    *)
(* last prepare or execute returned true; otherwise (no fetch since, or    *)
(* the last fetch returned false or threw) it ends with WrongSeqException. *)
(***************************************************************************)
C8_ValuesOnlyOnFetchedRow ==
    op = "column_value" =>
        /\ thrown = "" => row_ok
        /\ ~row_ok => thrown = "WrongSeqException"

(***************************************************************************)
(* C9: after a successful execute of a query of n rows, with no prepare    *)
(* or execute since, the first n fetch calls return true, call n + 1       *)
(* returns false and every later fetch call throws.                        *)
(***************************************************************************)
C9_FetchCounts ==
    (op = "fetch" /\ total >= 0) =>
        /\ fetches <= total => (thrown = "" /\ ret = "true")
        /\ fetches = total + 1 => (thrown = "" /\ ret = "false")
        /\ fetches > total + 1 => thrown # ""

(***************************************************************************)
(* C10: after every successful execute of a query of n rows, whatever      *)
(* was fetched of the rows of the execute before, the fetch calls that     *)
(* follow (column accessors may come between them) deliver the rows of the *)
(* new execution from the first on: call k <= n returns true with row k of *)
(* n as the current row, call n + 1 returns false.                         *)
(***************************************************************************)
C10_ExecuteRestartsStream ==
    (op = "fetch" /\ run >= 1) =>
        /\ run <= total =>
              (thrown = "" /\ ret = "true" /\ pulled = run /\ stream_len = total)
        /\ run = total + 1 => (thrown = "" /\ ret = "false")

\* the first fetch after an execute() that found the earlier rows partly
\* fetched
C10_Witness ==
    /\ op = "fetch"
    /\ run = 1
    /\ prev_stream = "partial"
    /\ total = 2
    /\ ret = "true"
    /\ pulled = 1


(***************************************************************************)
(* C17: a // line comment, wherever it stands in the text, is copied to    *)
(* the preprocessed SQL, and nothing inside it is rendered as a parameter  *)
(* or recorded in the maps: the rendered parameters are among the          *)
(* placeholders outside strings and comments, and so are the map keys.     *)
(* Stated of the texts without a template, where a comment cannot be the   *)
(* data of one.                                                            *)
(***************************************************************************)
LineComments(s) ==
    {TokText(s, Scan(s, 1)[k]) :
        k \in {j \in DOMAIN Scan(s, 1) : Scan(s, 1)[j].kind = "line_comment"}}

C17_LineCommentsCopied ==
    (op # "new" /\ WellFormed(sql) /\ HasLineComment(sql)
        /\ \A k \in DOMAIN sql : sql[k] # "{") =>
        /\ \A c \in LineComments(sql) : OccursIn(c, CopiedText(preprocessed_sql_))
        /\ IsSubseq(RenderedParams(preprocessed_sql_), LexParams(sql))
        /\ \A e \in named_params_ : \E id \in LexIds(sql) : SameId(id, Name(e.key))
        /\ \A e \in indexed_params_ : Index(e.key) \in LexIds(sql)

(***************************************************************************)
(* C18: in pass-through mode no rendering callback is called, both maps    *)
(* stay empty, and every placeholder is in the preprocessed SQL as it is   *)
(* in the text; a text without templates and line comments is copied       *)
(* character by character.                                                 *)
(***************************************************************************)
Placeholders(s) ==
    {TokText(s, Scan(s, 1)[k]) :
        k \in {j \in DOMAIN Scan(s, 1) : Scan(s, 1)[j].kind \in {"indexed", "named"}}}

C18_PassThroughCopies ==
    (op # "new" /\ use_native_parameters_syntax_) =>
        /\ Rendered(preprocessed_sql_) = <<>>
        /\ named_params_ = {}
        /\ indexed_params_ = {}
        /\ WellFormed(sql) =>
               \A p \in Placeholders(sql) : OccursIn(p, CopiedText(preprocessed_sql_))
        /\ (WellFormed(sql) /\ Plain(sql)) => CopiedText(preprocessed_sql_) = sql

\* a named and an indexed placeholder went through unchanged
C18_Witness ==
    /\ op = "preprocess"
    /\ use_native_parameters_syntax_
    /\ sql = <<":", "a", "?", "1">>
    /\ CopiedText(preprocessed_sql_) = sql
    /\ named_params_ = {}

(***************************************************************************)
(* C19: in pass-through mode do_for_param_indexes with an ordinal calls    *)
(* the callback exactly once, with this ordinal, whatever the maps hold    *)
(* and whatever the text was.                                              *)
(***************************************************************************)
C19_PassThroughOrdinal ==
    (op = "do_for_param_indexes" /\ use_native_parameters_syntax_
        /\ arg.type = "Index") =>
        /\ thrown = ""
        /\ calls = <<arg.index>>

\* ordinal 2 asked of a text that has one placeholder
C19_Witness ==
    /\ op = "do_for_param_indexes"
    /\ use_native_parameters_syntax_
    /\ arg = Index(2)
    /\ calls = <<2>>
    /\ sql = <<"?", "1">>


(***************************************************************************)
(* Connections and transactions.  A connection with the transaction object *)
(* created last is the record of their fields and of what the database     *)
(* session holds; every member function maps the record before the call to *)
(* the record after it and the exception that ends the call.  An answer of *)
(* the database is an argument.                                            *)
(***************************************************************************)
Conn ==
    [db_ |-> db_, transaction_is_active_ |-> transaction_is_active_,
     began |-> began, tran |-> tran, state_ |-> tran_state_]

Ended(w, exception) == [w |-> w, thrown |-> exception]

\* check_is_connected that lets every connection pass
ConnectionImpl_check_is_connected_passes(w) == ""

FbConnectionImpl_check_is_connected(w) ==
    IF ~w.db_ THEN "WrongSeqException" ELSE ""

SqliteConnectionImpl_check_is_connected(w) ==
    IF ~w.db_ THEN "WrongSeqException" ELSE ""

PgConnectionImpl_check_is_connected(w) ==
    IF ~w.db_ THEN "WrongSeqException" ELSE ""

\* the answers of the database to a connect: "ok"; "refused", no handle is
\* left; "broken", a step after the handle was received failed
ConnectAnswers(kind) ==
    IF kind = "pg" THEN {"ok", "refused"} ELSE {"ok", "refused", "broken"}

\* PQconnectdbParams, PQstatus; a connection that is not CONNECTION_OK is
\* finished
PgConnectionImpl_connect(w, answer) ==
    IF w.db_ THEN Ended(w, "WrongSeqException")
    ELSE IF answer = "ok" THEN Ended([w EXCEPT !.db_ = TRUE], "")
    ELSE Ended([w EXCEPT !.db_ = FALSE], "Exception")

\* isc_attach_database, isc_database_info
FbConnectionImpl_connect(w, answer) ==
    IF w.db_ THEN Ended(w, "WrongSeqException")
    ELSE IF answer = "ok" THEN Ended([w EXCEPT !.db_ = TRUE], "")
    ELSE IF answer = "refused" THEN Ended(w, "Exception")
    ELSE Ended([w EXCEPT !.db_ = TRUE], "Exception")

\* sqlite3_open_v2, which hands out a handle for a database it could not
\* open unless it is out of memory, then the PRAGMA statements
SqliteConnectionImpl_connect(w, answer) ==
    IF w.db_ THEN Ended(w, "WrongSeqException")
    ELSE IF answer = "ok" THEN Ended([w EXCEPT !.db_ = TRUE], "")
    ELSE IF answer = "refused" THEN Ended(w, "Exception")
    ELSE Ended([w EXCEPT !.db_ = TRUE], "Exception")

\* a disconnect that returns and leaves conn_ as it is
PgConnectionImpl_disconnect_keeps_conn(w) ==
    IF ~w.db_ THEN Ended(w, "WrongSeqException") ELSE Ended(w, "")

\* PQfinish: the session ends with its transaction
PgConnectionImpl_disconnect(w) ==
    IF PgConnectionImpl_check_is_connected(w) # ""
    THEN Ended(w, PgConnectionImpl_check_is_connected(w))
    ELSE Ended([w EXCEPT !.db_ = FALSE, !.began = FALSE], "")

\* internal_disconnect(true): isc_detach_database
FbConnectionImpl_disconnect(w, ok) ==
    IF FbConnectionImpl_check_is_connected(w) # ""
    THEN Ended(w, FbConnectionImpl_check_is_connected(w))
    ELSE IF ~ok THEN Ended(w, "Exception")
    ELSE Ended([w EXCEPT !.db_ = FALSE, !.began = FALSE], "")

\* disconnect_internal(true): sqlite3_close
SqliteConnectionImpl_disconnect(w, ok) ==
    IF SqliteConnectionImpl_check_is_connected(w) # ""
    THEN Ended(w, SqliteConnectionImpl_check_is_connected(w))
    ELSE IF ~ok THEN Ended(w, "Exception")
    ELSE Ended([w EXCEPT !.db_ = FALSE, !.began = FALSE], "")

Transaction_check_not_started(w) ==
    IF w.state_ = "Started" THEN "WrongSeqException" ELSE ""

Transaction_check_started(w) ==
    IF w.state_ # "Started" THEN "WrongSeqException" ELSE ""

\* PgTransactionImpl::exec: get_connection() checks the connection, PQexec
\* runs the statement; opens is what a statement that succeeds leaves of
\* the transaction of the session
PgTransactionImpl_exec(w, ok, opens) ==
    IF PgConnectionImpl_check_is_connected(w) # ""
    THEN Ended(w, PgConnectionImpl_check_is_connected(w))
    ELSE IF ~ok THEN Ended(w, "Exception")
    ELSE Ended([w EXCEPT !.began = opens], "")

\* the answers of the database to the statements of a start: "ok";
\* "failed", the transaction was not opened; "late", it was opened and the
\* statement after it failed (SET LOCAL lock_timeout of PostgreSQL)
StartAnswers(kind) ==
    IF kind = "pg" THEN {"ok", "failed", "late"} ELSE {"ok", "failed"}

PgTransactionImpl_internal_start(w, answer) ==
    LET r == PgTransactionImpl_exec(w, answer # "failed", TRUE)
    IN  IF r.thrown # "" THEN r
        ELSE PgTransactionImpl_exec(r.w, answer = "ok", TRUE)

PgTransactionImpl_internal_commit(w, ok) == PgTransactionImpl_exec(w, ok, FALSE)

PgTransactionImpl_internal_rollback(w, ok) == PgTransactionImpl_exec(w, ok, FALSE)

\* sqlite3_exec on a connection without a handle fails
SQLiteTransactionImpl_internal_start(w, answer) ==
    IF w.transaction_is_active_ THEN Ended(w, "WrongSeqException")
    ELSE IF ~w.db_ \/ answer # "ok" THEN Ended(w, "Exception")
    ELSE Ended([w EXCEPT !.began = TRUE, !.transaction_is_active_ = TRUE], "")

SQLiteTransactionImpl_internal_commit(w, ok) ==
    LET w1 == [w EXCEPT !.transaction_is_active_ = FALSE]
    IN  IF ~w.db_ \/ ~ok THEN Ended(w1, "Exception")
        ELSE Ended([w1 EXCEPT !.began = FALSE], "")

SQLiteTransactionImpl_internal_rollback(w, ok) ==
    LET w1 == [w EXCEPT !.transaction_is_active_ = FALSE]
    IN  IF ~w.db_ \/ ~ok THEN Ended(w1, "Exception")
        ELSE Ended([w1 EXCEPT !.began = FALSE], "")

\* isc_start_transaction on the handle of the connection
FbTransactionImpl_internal_start(w, answer) ==
    IF ~w.db_ \/ answer # "ok" THEN Ended(w, "Exception")
    ELSE Ended([w EXCEPT !.began = TRUE], "")

FbTransactionImpl_internal_commit(w, ok) ==
    IF ~w.db_ \/ ~ok THEN Ended(w, "Exception")
    ELSE Ended([w EXCEPT !.began = FALSE], "")

FbTransactionImpl_internal_rollback(w, ok) ==
    IF Transaction_check_started(w) # ""
    THEN Ended(w, Transaction_check_started(w))
    ELSE IF ~w.db_ \/ ~ok THEN Ended(w, "Exception")
    ELSE Ended([w EXCEPT !.began = FALSE], "")

internal_start(w, kind, answer) ==
    CASE kind = "pg" -> PgTransactionImpl_internal_start(w, answer)
      [] kind = "sqlite" -> SQLiteTransactionImpl_internal_start(w, answer)
      [] OTHER -> FbTransactionImpl_internal_start(w, answer)

internal_commit(w, kind, ok) ==
    CASE kind = "pg" -> PgTransactionImpl_internal_commit(w, ok)
      [] kind = "sqlite" -> SQLiteTransactionImpl_internal_commit(w, ok)
      [] OTHER -> FbTransactionImpl_internal_commit(w, ok)

internal_rollback(w, kind, ok) ==
    CASE kind = "pg" -> PgTransactionImpl_internal_rollback(w, ok)
      [] kind = "sqlite" -> SQLiteTransactionImpl_internal_rollback(w, ok)
      [] OTHER -> FbTransactionImpl_internal_rollback(w, ok)

Transaction_start(w, kind, answer) ==
    IF Transaction_check_not_started(w) # ""
    THEN Ended(w, Transaction_check_not_started(w))
    ELSE internal_start(w, kind, answer)

Transaction_commit(w, kind, ok) ==
    IF Transaction_check_started(w) # ""
    THEN Ended(w, Transaction_check_started(w))
    ELSE internal_commit(w, kind, ok)

Transaction_commit_and_start(w, kind, ok, answer) ==
    IF Transaction_check_started(w) # ""
    THEN Ended(w, Transaction_check_started(w))
    ELSE LET r == internal_commit(w, kind, ok)
         IN  IF r.thrown # "" THEN r ELSE internal_start(r.w, kind, answer)

Transaction_rollback(w, kind, ok) ==
    IF Transaction_check_started(w) # ""
    THEN Ended(w, Transaction_check_started(w))
    ELSE internal_rollback(w, kind, ok)

Transaction_rollback_and_start(w, kind, ok, answer) ==
    IF Transaction_check_started(w) # ""
    THEN Ended(w, Transaction_check_started(w))
    ELSE LET r == internal_rollback(w, kind, ok)
         IN  IF r.thrown # "" THEN r ELSE internal_start(r.w, kind, answer)

\* the transaction object of make_shared, started if the parameters say
\* so; an exception of start() leaves the caller with the object it had
Created(w, kind, with_autostart, answer) ==
    LET n == [w EXCEPT !.tran = TRUE, !.state_ = "Undefined"]
        r == Transaction_start(n, kind, answer)
    IN  IF ~with_autostart THEN Ended(n, "")
        ELSE IF r.thrown # ""
        THEN Ended([r.w EXCEPT !.tran = w.tran, !.state_ = w.state_], r.thrown)
        ELSE r

FbConnectionImpl_create_fb_transaction(w, with_autostart, answer) ==
    IF FbConnectionImpl_check_is_connected(w) # ""
    THEN Ended(w, FbConnectionImpl_check_is_connected(w))
    ELSE Created(w, "fb", with_autostart, answer)

SqliteConnectionImpl_create_sqlite_transaction(w, with_autostart, answer) ==
    IF SqliteConnectionImpl_check_is_connected(w) # ""
    THEN Ended(w, SqliteConnectionImpl_check_is_connected(w))
    ELSE Created(w, "sqlite", with_autostart, answer)

PgConnectionImpl_create_pg_transaction(w, with_autostart, answer) ==
    IF PgConnectionImpl_check_is_connected(w) # ""
    THEN Ended(w, PgConnectionImpl_check_is_connected(w))
    ELSE Created(w, "pg", with_autostart, answer)

\* is_connected() of the three classes: conn_ != nullptr, db_ != nullptr,
\* db_handle_ != 0
Connection_is_connected(w) == w.db_

Connection_connect(w, kind, answer) ==
    CASE kind = "pg" -> PgConnectionImpl_connect(w, answer)
      [] kind = "sqlite" -> SqliteConnectionImpl_connect(w, answer)
      [] OTHER -> FbConnectionImpl_connect(w, answer)

Connection_disconnect(w, kind, ok) ==
    CASE kind = "pg" -> PgConnectionImpl_disconnect(w)
      [] kind = "sqlite" -> SqliteConnectionImpl_disconnect(w, ok)
      [] OTHER -> FbConnectionImpl_disconnect(w, ok)

Connection_create_transaction(w, kind, with_autostart, answer) ==
    CASE kind = "pg" -> PgConnectionImpl_create_pg_transaction(w, with_autostart, answer)
      [] kind = "sqlite" ->
             SqliteConnectionImpl_create_sqlite_transaction(w, with_autostart, answer)
      [] OTHER -> FbConnectionImpl_create_fb_transaction(w, with_autostart, answer)

(***************************************************************************)
(* The connection run: one connection of one of the three classes, any     *)
(* sequence of connect, disconnect and create_transaction calls and of     *)
(* calls on the transaction created last                                   *)
(***************************************************************************)
TranCall(name, r) ==
    /\ op' = name
    /\ thrown' = r.thrown
    /\ db_' = r.w.db_
    /\ transaction_is_active_' = r.w.transaction_is_active_
    /\ began' = r.w.began
    /\ tran' = r.w.tran
    /\ tran_state_' = r.w.state_
    /\ UNCHANGED <<regex_multiline, backend, bufVars, preVars, stmtVars, historyVars,
                   sqldaVars, colsVars, arg, calls>>

Connect ==
    \E answer \in ConnectAnswers(backend) :
      \E r \in {Connection_connect(Conn, backend, answer)} :
        /\ TranCall("connect", r)
        /\ conn_life' = IF r.thrown = "" THEN "connected"
                        ELSE IF r.thrown = "WrongSeqException" THEN conn_life
                        ELSE "failed"
        /\ ret' = "none"
        /\ UNCHANGED <<autostart, cycles>>

Disconnect ==
    \E ok \in BOOLEAN :
      \E r \in {Connection_disconnect(Conn, backend, ok)} :
        /\ TranCall("disconnect", r)
        /\ conn_life' = IF r.thrown = "" THEN "disconnected" ELSE conn_life
        /\ cycles' = IF r.thrown = "" /\ conn_life = "connected" /\ cycles < MaxCycles
                     THEN cycles + 1 ELSE cycles
        /\ ret' = "none"
        /\ UNCHANGED autostart

CreateTransaction ==
    \E with_autostart \in BOOLEAN, answer \in StartAnswers(backend) :
      \E r \in {Connection_create_transaction(Conn, backend, with_autostart, answer)} :
        /\ TranCall("create_transaction", r)
        /\ autostart' = with_autostart
        /\ ret' = IF r.thrown = "" THEN "transaction" ELSE "none"
        /\ UNCHANGED <<conn_life, cycles>>

TranOp(name, r) ==
    /\ tran
    /\ TranCall(name, r)
    /\ ret' = "none"
    /\ UNCHANGED <<autostart, conn_life, cycles>>

Start ==
    \E answer \in StartAnswers(backend) :
      \E r \in {Transaction_start(Conn, backend, answer)} : TranOp("start", r)

Commit ==
    \E ok \in BOOLEAN :
      \E r \in {Transaction_commit(Conn, backend, ok)} : TranOp("commit", r)

CommitAndStart ==
    \E ok \in BOOLEAN, answer \in StartAnswers(backend) :
      \E r \in {Transaction_commit_and_start(Conn, backend, ok, answer)} :
        TranOp("commit_and_start", r)

Rollback ==
    \E ok \in BOOLEAN :
      \E r \in {Transaction_rollback(Conn, backend, ok)} : TranOp("rollback", r)

RollbackAndStart ==
    \E ok \in BOOLEAN, answer \in StartAnswers(backend) :
      \E r \in {Transaction_rollback_and_start(Conn, backend, ok, answer)} :
        TranOp("rollback_and_start", r)

NextTran ==
    \/ Connect \/ Disconnect \/ CreateTransaction
    \/ Start \/ Commit \/ CommitAndStart \/ Rollback \/ RollbackAndStart

SpecTran == Init /\ [][NextTran]_vars

(***************************************************************************)
(* C14: get_state() follows the calls: after a start() that returned the   *)
(* state is Started, after a commit() that returned Commited, after a      *)
(* rollback() that returned Rollbacked, after a commit_and_start() or a    *)
(* rollback_and_start() that returned Started.                             *)
(***************************************************************************)
C14_StateFollowsCalls ==
    (tran /\ thrown = "") =>
        /\ op = "start" => tran_state_ = "Started"
        /\ op = "commit" => tran_state_ = "Commited"
        /\ op = "rollback" => tran_state_ = "Rollbacked"
        /\ op \in {"commit_and_start", "rollback_and_start"} => tran_state_ = "Started"

(***************************************************************************)
(* C15: a transaction that create_transaction returned on a connected      *)
(* connection is in state Started when autostart was true and in state     *)
(* Undefined when it was false.                                            *)
(***************************************************************************)
C15_CreatedStartedIfAutostart ==
    (op = "create_transaction" /\ thrown = "") =>
        tran_state_ = (IF autostart THEN "Started" ELSE "Undefined")

(***************************************************************************)
(* C16: create_transaction on a connection that was never connected, or    *)
(* that was disconnected after it was connected, ends with                 *)
(* WrongSeqException and returns no transaction, in each of the three      *)
(* classes.                                                                *)
(***************************************************************************)
C16_NotConnectedIsWrongSeq ==
    (op = "create_transaction" /\ conn_life \in {"never", "disconnected"}) =>
        /\ thrown = "WrongSeqException"
        /\ ret = "none"

\* the connection was connected, a transaction was created on it, and the
\* connection was disconnected
C16_Witness ==
    /\ op = "create_transaction"
    /\ conn_life = "disconnected"
    /\ tran
    /\ thrown = "WrongSeqException"
    /\ backend = "sqlite"


(***************************************************************************)
(* C12: a set function that returns for an identifier has written every    *)
(* native slot of an occurrence of the identifier in the text of the       *)
(* statement.  In the classes that render the slots (PostgreSQL, Firebird) *)
(* these are the slots the occurrences were rendered with; in SQLite they  *)
(* are the numbers the engine gave the placeholders of the text it         *)
(* compiled.                                                               *)
(***************************************************************************)
Written == {calls[k] : k \in DOMAIN calls}

\* the placeholders of the text SQLite compiled
SQLitePlaceholders ==
    IF use_native_parameters_syntax_ THEN LexParams(sql)
    ELSE RenderedParams(preprocessed_sql_)

\* the number SQLite gave the placeholder p
SQLiteNumberOf(p) ==
    IF p[1] \in SigilChars
    THEN (CHOOSE e \in SQLiteParameters(This).names : e.key = p).index
    ELSE atoi(p)

NativeSlotsOf(id) ==
    IF backend = "sqlite"
    THEN {SQLiteNumberOf(SQLitePlaceholders[k]) :
             k \in {j \in DOMAIN SQLitePlaceholders :
                       SameId(IdOfText(SQLitePlaceholders[j]), id)}}
    ELSE {RenderedSlotsOf(id)[k] : k \in DOMAIN RenderedSlotsOf(id)}

C12_SetReachesEveryOccurrence ==
    (/\ op = "set_param"
     /\ thrown = ""
     /\ WellFormed(sql)
     /\ (backend = "sqlite" \/ ~use_native_parameters_syntax_))
    => NativeSlotsOf(arg) \subseteq Written


(***************************************************************************)
(* C20: a set function called with a name finds the parameter exactly if   *)
(* the text of the statement has a name with the same sigil and the same   *)
(* word up to letter case, and then writes slots of this parameter only;   *)
(* a name with the same word and another sigil is not found.               *)
(***************************************************************************)
C20_NamesFoldCaseKeepSigil ==
    (/\ op = "set_param"
     /\ arg.type = "Name"
     /\ thrown # "WrongSeqException"
     /\ WellFormed(sql)
     /\ (backend = "sqlite" \/ ~use_native_parameters_syntax_))
    => IF \E id \in LexIds(sql) : SameId(id, arg)
       THEN /\ thrown # "ParameterNotFoundException"
            /\ thrown = "" => (Written # {} /\ Written \subseteq NativeSlotsOf(arg))
       ELSE thrown = "ParameterNotFoundException"


(***************************************************************************)
(* The values of the input parameters of a Firebird statement.  in_sqlda_  *)
(* has one XSQLVAR for each slot: the type isc_dsql_describe_bind reported *)
(* for it, the data buffer and the null flag.  A function that writes      *)
(* maps the XSQLDA before the call to the XSQLDA after it and the          *)
(* exception that ends the call.                                           *)
(***************************************************************************)
\* the types described for the slots of the run
SqlTypes == {"Short", "Integer", "Date"}

\* the values handed to set_int32_opt: none, one that fits int16_t and one
\* that does not
SetValues == {<<>>, <<1>>, <<40000>>}

\* alloc_fields: a buffer of zeros and a null flag of 0 for every slot
alloc_fields(types) ==
    [k \in DOMAIN types |-> [sqltype |-> types[k], data |-> 0, null_flag |-> 0]]

Wrote(da, exception) == [da |-> da, thrown |-> exception]

SqlDA_check_index(da, index) ==
    IF index < 1 \/ index > Len(da) THEN "WrongArgumentException" ELSE ""

SqlDA_get_column_type(da, index) == da[index].sqltype

InSqlDA_set_null(da, index, is_null) ==
    [da EXCEPT ![index].null_flag = IF is_null THEN -1 ELSE 0]

InSqlDA_set_param(da, index, v, sql_type) ==
    IF da[index].sqltype # sql_type THEN Wrote(da, "WrongParameterType")
    ELSE Wrote([da EXCEPT ![index].data = v], "")

\* check_cvt_range<int16_t>(value, true)
check_cvt_range_int16(v) ==
    IF v < -32768 \/ v > 32767 THEN "TypeRangeExceeds" ELSE ""

\* set_int_param_with_type_cvt<int32_t>: the cases of the types of the run
\* and of the other integer types; every type that is no number and no
\* string ends in the default case
set_int_param_with_type_cvt(da, param_type, index, v) ==
    CASE param_type = "Short" ->
             IF check_cvt_range_int16(v) # ""
             THEN Wrote(da, check_cvt_range_int16(v))
             ELSE InSqlDA_set_param(da, index, v, "Short")
      [] param_type = "Integer" -> InSqlDA_set_param(da, index, v, "Integer")
      [] param_type = "BigInt" -> InSqlDA_set_param(da, index, v, "BigInt")
      [] OTHER -> Wrote(da, "WrongTypeConvException")

\* the callback of set_param_opt_impl
SetSlot(da, internal_index, v) ==
    IF SqlDA_check_index(da, internal_index) # ""
    THEN Wrote(da, SqlDA_check_index(da, internal_index))
    ELSE IF v = <<>> THEN Wrote(InSqlDA_set_null(da, internal_index, TRUE), "")
    ELSE With(set_int_param_with_type_cvt(
                  da, SqlDA_get_column_type(da, internal_index), internal_index, v[1]),
              LAMBDA r :
                  IF r.thrown # "" THEN r
                  ELSE Wrote(InSqlDA_set_null(r.da, internal_index, FALSE), ""))

\* a fan-out that writes no slot unless the value converts for every slot
SetSlots_all_or_nothing(da, slots, v, done) ==
    LET bad == {k \in DOMAIN slots : SetSlot(da, slots[k], v).thrown # ""}
        ApplyAll[k \in 0..Len(slots)] ==
            IF k = 0 THEN da ELSE SetSlot(ApplyAll[k - 1], slots[k], v).da
    IN  IF bad = {}
        THEN [da |-> ApplyAll[Len(slots)], thrown |-> "", calls |-> done \o slots]
        ELSE [da |-> da,
              thrown |-> SetSlot(da, slots[CHOOSE k \in bad : \A j \in bad : k <= j],
                                 v).thrown,
              calls |-> done]

\* for (auto param_index : *param_indices) fun(param_index): the slots in
\* their order, up to the first for which the callback throws
RECURSIVE SetSlots(_, _, _, _)
SetSlots(da, slots, v, done) ==
    IF slots = <<>> THEN [da |-> da, thrown |-> "", calls |-> done]
    ELSE With(SetSlot(da, Head(slots), v),
              LAMBDA r :
                  IF r.thrown # ""
                  THEN [da |-> r.da, thrown |-> r.thrown, calls |-> done]
                  ELSE SetSlots(r.da, Tail(slots), v, done \o <<Head(slots)>>))

\* set_int32_opt(param, value) = set_param_opt_impl(param, value)
FbStatementImpl_set_param_opt_impl(self, da, param, v) ==
    IF FbStatementImpl_check_is_prepared(self) # ""
    THEN [da |-> da, thrown |-> FbStatementImpl_check_is_prepared(self), calls |-> <<>>]
    ELSE With(sql_preprocessor_do_for_param_indexes(self, param),
              LAMBDA r :
                  IF r.thrown # ""
                  THEN [da |-> da, thrown |-> r.thrown, calls |-> <<>>]
                  ELSE SetSlots(da, r.calls, v, <<>>))

(***************************************************************************)
(* The run that sets parameters: a Firebird statement is prepared once,    *)
(* the database describes a type for each of its slots, then at most       *)
(* MaxSets calls of set_int32_opt follow                                   *)
(***************************************************************************)
MaxSets == 2

InitSet == Init /\ backend = "fb"

SetPrepare ==
    /\ stmt_ = 0
    /\ \E text \in SetTexts, is_select \in BOOLEAN :
       \E r \in {FbStatementImpl_prepare(This, text, FALSE, TRUE, is_select, 0)} :
       \E types \in [1..r.self.params_count -> SqlTypes] :
           /\ Assigned("prepare", Index(0), r)
           /\ in_sqlda_' = alloc_fields(types)
           /\ sqlda_before' = <<>>
           /\ set_value' = <<>>
           /\ sets' = 0
           /\ ever_used' = TRUE
           /\ UNCHANGED <<replaced, total, fetches, row_ok, run, prev_stream, colsVars>>

SetInt32Opt ==
    /\ sets < MaxSets
    /\ \E param \in Params, v \in SetValues :
       \E r \in {FbStatementImpl_set_param_opt_impl(This, in_sqlda_, param, v)} :
           /\ op' = "set_param"
           /\ arg' = param
           /\ calls' = r.calls
           /\ thrown' = r.thrown
           /\ in_sqlda_' = r.da
           /\ sqlda_before' = in_sqlda_
           /\ set_value' = v
           /\ sets' = sets + 1
           /\ UNCHANGED <<regex_multiline, backend, bufVars, preVars, stmtVars, historyVars,
                          tranVars, colsVars, ret>>

NextSet == SetPrepare \/ SetInt32Opt

SpecSet == InitSet /\ [][NextSet]_vars


(***************************************************************************)
(* C13: when the identifier of a set call has several slots and the value  *)
(* does not convert to the type of one of them, the call ends with the     *)
(* conversion error of the first such slot, the slots before it hold the   *)
(* new value and are not null, and every other slot, the failing one and   *)
(* the ones after it included, is as it was before the call.               *)
(***************************************************************************)
\* an int32_t does not convert to the type: the type takes no number, or
\* the value is outside an int16_t
ConvError(sqltype, v) ==
    IF sqltype = "Short"
    THEN IF v \in -32768..32767 THEN "" ELSE "TypeRangeExceeds"
    ELSE IF sqltype \in {"Integer", "BigInt", "Float", "Double", "Char", "Varchar"}
    THEN ""
    ELSE "WrongTypeConvException"

FirstFailing(slots) ==
    LET failing == {k \in DOMAIN slots :
                       ConvError(sqlda_before[slots[k]].sqltype, set_value[1]) # ""}
    IN  IF failing = {} THEN 0 ELSE CHOOSE k \in failing : \A j \in failing : k <= j

C13_FanOutStopsAtFirstFailure ==
    (op = "set_param" /\ set_value # <<>>) =>
        \A e \in EntriesOf(arg) :
            (Len(e.slots) >= 2 /\ FirstFailing(e.slots) # 0) =>
                LET k == FirstFailing(e.slots)
                IN  /\ thrown = ConvError(sqlda_before[e.slots[k]].sqltype, set_value[1])
                    /\ calls = SubSeq(e.slots, 1, k - 1)
                    /\ \A j \in 1..(k - 1) :
                           in_sqlda_[e.slots[j]] =
                               [sqltype |-> sqlda_before[e.slots[j]].sqltype,
                                data |-> set_value[1], null_flag |-> 0]
                    /\ \A n \in DOMAIN in_sqlda_ :
                           (\A j \in 1..(k - 1) : e.slots[j] # n) =>
                               in_sqlda_[n] = sqlda_before[n]

\* the second of three slots is a SMALLINT: the first has the new value,
\* the third the value of the call before
C13_Witness ==
    /\ op = "set_param"
    /\ sets = 2
    /\ arg = Name(<<":", "a">>)
    /\ sql = <<":", "a", ":", "A", ":", "a">>
    /\ set_value = <<40000>>
    /\ thrown = "TypeRangeExceeds"
    /\ calls = <<1>>
    /\ in_sqlda_[1].data = 40000
    /\ in_sqlda_[2].data = 1
    /\ in_sqlda_[3].data = 1


(***************************************************************************)
(* ColumnsHelper: the names of the columns are read from the statement at  *)
(* the first lookup by name and kept until clear().  h is the record of    *)
(* the two fields, cols the names the statement reports.                   *)
(***************************************************************************)
Helper == [index_by_name_ |-> index_by_name_, initialized_ |-> initialized_]

\* clear that leaves the names and the flag
ColumnsHelper_clear_keeps(h) == h

ColumnsHelper_clear(h) == [index_by_name_ |-> {}, initialized_ |-> FALSE]

\* index_by_name_.insert({name, i}): a key the map holds is not replaced
map_insert(m, name, i) ==
    IF \E e \in m : SameKey(e.key, name) THEN m
    ELSE m \cup {[key |-> name, index |-> i]}

RECURSIVE InsertColumns(_, _, _)
InsertColumns(m, cols, i) ==
    IF i > Len(cols) THEN m
    ELSE InsertColumns(map_insert(m, cols[i], i), cols, i + 1)

Resolved(h, i, exception) == [h |-> h, index |-> i, thrown |-> exception]

ColumnsHelper_get_column_index(h, column, cols) ==
    IF column.type = "Index" THEN Resolved(h, column.index, "")
    ELSE With(IF h.initialized_ THEN h
              ELSE [index_by_name_ |-> InsertColumns(h.index_by_name_, cols, 1),
                    initialized_ |-> TRUE],
              LAMBDA h1 :
                  IF \E e \in h1.index_by_name_ : SameKey(e.key, column.name)
                  THEN Resolved(h1,
                                (CHOOSE e \in h1.index_by_name_ :
                                     SameKey(e.key, column.name)).index,
                                "")
                  ELSE Resolved(h1, 0, "ColumnNotFoundException"))

\* get_column_type(column): the check of the class, the lookup, and in the
\* Firebird class out_sqlda_.check_index
StatementImpl_get_column_type(self, kind, h, column, cols) ==
    IF ColumnInfoCheck(self, kind) # ""
    THEN Resolved(h, 0, ColumnInfoCheck(self, kind))
    ELSE With(ColumnsHelper_get_column_index(h, column, cols),
              LAMBDA r :
                  IF r.thrown = "" /\ kind = "fb"
                         /\ (r.index < 1 \/ r.index > Len(cols))
                  THEN Resolved(r.h, 0, "WrongArgumentException")
                  ELSE r)

StatementImpl_prepare(self, kind, text, use_native, ok) ==
    CASE kind = "pg" -> PgStatementImpl_prepare(self, text, use_native, ok, 0)
      [] kind = "sqlite" -> SQLiteStatementImpl_prepare(self, text, use_native, ok)
      [] OTHER -> FbStatementImpl_prepare(self, text, use_native, ok, ok, 0)

StatementImpl_execute_sql(self, kind, text, ok, rows) ==
    CASE kind = "pg" -> PgStatementImpl_execute_sql(self, text, ok, rows)
      [] kind = "sqlite" -> SQLiteStatementImpl_execute_sql(self, text, ok, rows)
      [] OTHER -> FbStatementImpl_execute_sql(self, text, ok, ok, 0, rows)

(***************************************************************************)
(* The run that looks columns up: one statement object, any sequence of    *)
(* prepare, execute(sql) and get_column_type calls.  The database answers  *)
(* a text it accepts with the names of its columns.                        *)
(***************************************************************************)
ColumnLists ==
    { <<<<"a">>, <<"b">>>>, <<<<"b">>, <<"a">>>>, <<<<"A">>>>, <<<<"b">>, <<"B">>>> }

Columns ==
    {Name(<<"a">>), Name(<<"A">>), Name(<<"b">>), Name(<<"c">>), Index(1), Index(2)}

\* what the statement reports after a prepare or a text-execute that ended
\* as ok tells: the columns of the text; after an error none (PostgreSQL:
\* result_ holds no description; SQLite: no statement), in the Firebird
\* class none or the ones out_sqlda_ held
ReportedColumns(kind, ok, cols, before) ==
    IF ok THEN {cols}
    ELSE IF kind = "fb" THEN {<<>>, before}
    ELSE {<<>>}

\* prepare and execute(sql) begin with columns_helper_.clear() (SQLite:
\* after the preprocessing)
Described(name, r, ok, cols) ==
    /\ Assigned(name, Index(0), r)
    /\ \E h \in {ColumnsHelper_clear(Helper)} :
           /\ index_by_name_' = h.index_by_name_
           /\ initialized_' = h.initialized_
    /\ columns' \in ReportedColumns(backend, ok, cols, columns)
    /\ col_index' = 0
    /\ warm' = (index_by_name_ # {})
    /\ old_columns' = columns
    /\ prep_ok' = ok
    /\ ever_used' = TRUE
    /\ UNCHANGED <<replaced, total, fetches, row_ok, run, prev_stream, sqldaVars>>

ColsPrepare ==
    \E text \in Statements, ok \in Answers, cols \in ColumnLists :
        \E r \in {StatementImpl_prepare(This, backend, text, FALSE, ok)} :
            Described("prepare", r, ok, cols)

ColsExecuteSql ==
    \E text \in Statements, ok \in Answers, cols \in ColumnLists :
        \E r \in {StatementImpl_execute_sql(This, backend, text, ok, 1)} :
            Described("execute_sql", r, ok, cols)

ColsGetColumnType ==
    \E column \in Columns :
        \E r \in {StatementImpl_get_column_type(This, backend, Helper, column, columns)} :
            /\ op' = "get_column_type"
            /\ arg' = column
            /\ calls' = <<>>
            /\ thrown' = r.thrown
            /\ col_index' = r.index
            /\ index_by_name_' = r.h.index_by_name_
            /\ initialized_' = r.h.initialized_
            /\ UNCHANGED <<regex_multiline, backend, bufVars, preVars, stmtVars, historyVars,
                           tranVars, sqldaVars, columns, warm, old_columns, prep_ok,
                           ret>>

NextCols == ColsPrepare \/ ColsExecuteSql \/ ColsGetColumnType

SpecCols == Init /\ [][NextCols]_vars

(***************************************************************************)
(* C11: after a prepare or a text-execute that returned, a lookup by name  *)
(* resolves against the columns of the new statement, whatever the cache   *)
(* held of the statement before: it returns the ordinal of a column of     *)
(* this name (letter case aside) if there is one, and ends with            *)
(* ColumnNotFoundException if there is none.                               *)
(***************************************************************************)
FoldCase(name) == [k \in DOMAIN name |-> tolower(name[k])]

C11_LookupAgainstNewColumns ==
    (op = "get_column_type" /\ arg.type = "Name" /\ prep_ok) =>
        IF \E k \in DOMAIN columns : FoldCase(columns[k]) = FoldCase(arg.name)
        THEN /\ thrown = ""
             /\ col_index \in DOMAIN columns
             /\ FoldCase(columns[col_index]) = FoldCase(arg.name)
        ELSE /\ thrown = "ColumnNotFoundException"
             /\ col_index = 0

\* column a was the first of the statement before, whose names were in the
\* cache, and is the second of the new one
C11_Witness ==
    /\ op = "get_column_type"
    /\ arg = Name(<<"a">>)
    /\ warm
    /\ prep_ok
    /\ old_columns = <<<<"a">>, <<"b">>>>
    /\ columns = <<<<"b">>, <<"a">>>>
    /\ col_index = 2
    /\ thrown = ""


(***************************************************************************)
(* Texts with one if_seq template and neither strings nor comments: the    *)
(* text before the template, the inner text up to the first comma or       *)
(* closing brace, and the text after the closing brace                     *)
(***************************************************************************)
IfSeqWord == <<"{", "i", "f", "_", "s", "e", "q">>

RECURSIVE FirstOf(_, _, _)
FirstOf(s, i, chars) ==
    IF i > Len(s) THEN 0
    ELSE IF s[i] \in chars THEN i
    ELSE FirstOf(s, i + 1, chars)

IfSeqParts(s) ==
    LET b == FirstOf(s, 1, {"{"})
        e == FirstOf(s, b + Len(IfSeqWord), {",", "}"})
        c == FirstOf(s, e, {"}"})
    IN  [pre |-> SubSeq(s, 1, b - 1),
         inner |-> SubSeq(s, b + Len(IfSeqWord), e - 1),
         post |-> SubSeq(s, c + 1, Len(s))]

OneIfSeq(s) ==
    /\ Cardinality({k \in DOMAIN s : s[k] = "{"}) = 1
    /\ LitAt(s, FirstOf(s, 1, {"{"}), IfSeqWord)
    /\ FirstOf(s, FirstOf(s, 1, {"{"}) + Len(IfSeqWord), {",", "}"}) # 0
    /\ FirstOf(s, FirstOf(s, 1, {"{"}), {"}"}) # 0
    /\ \E k \in DOMAIN IfSeqParts(s).inner : IfSeqParts(s).inner[k] \notin SpaceChars
    /\ \A k \in DOMAIN s : s[k] \notin {"'", "\"", "/", "\\", "\n"}

\* the placeholders of the text around the template and of its inner text,
\* left to right
IfSeqParams(s) ==
    LexParams(IfSeqParts(s).pre) \o LexParams(IfSeqParts(s).inner)
        \o LexParams(IfSeqParts(s).post)

\* the slot of the k-th rendered placeholder when slots are given out left
\* to right: with coalescing the slot of the first occurrence of its
\* identifier, otherwise the slot after those given out before
LeftToRightSlot(r, k, coalesce) ==
    LET same == {j \in 1..(k - 1) : SameId(IdOfText(r[j].p), IdOfText(r[k].p))}
    IN  IF coalesce /\ same # {}
        THEN r[CHOOSE j \in same : \A i \in same : j <= i].n
        ELSE 1 + Cardinality({r[j].n : j \in 1..(k - 1)})

Range(f) == {f[k] : k \in DOMAIN f}

(***************************************************************************)
(* C21: the placeholders inside the inner text of an if_seq are            *)
(* preprocessed with the maps and the slot counter of the surrounding      *)
(* text: the placeholders before, inside and after the template are        *)
(* rendered in this order with slots given out left to right, each has its *)
(* slot in the one map entry of its identifier, and do_for_param_indexes   *)
(* calls the callback with the slots of an identifier whether it occurs    *)
(* inside or outside the template.                                         *)
(***************************************************************************)
C21_IfSeqInnerSharesMapsAndCounter ==
    (Substituted /\ OneIfSeq(sql)) =>
        LET r == Rendered(preprocessed_sql_)
        IN  /\ RenderedParams(preprocessed_sql_) = IfSeqParams(sql)
            /\ \A k \in DOMAIN r :
                   /\ r[k].n = LeftToRightSlot(r, k, supports_indexed_params)
                   /\ Cardinality(EntriesOf(IdOfText(r[k].p))) = 1
                   /\ \A e \in EntriesOf(IdOfText(r[k].p)) :
                          Range(e.slots) = Range(RenderedSlotsOf(IdOfText(r[k].p)))
            /\ (op = "do_for_param_indexes"
                    /\ \E k \in DOMAIN r : SameId(IdOfText(r[k].p), arg)) =>
                   /\ thrown = ""
                   /\ Range(calls) = Range(RenderedSlotsOf(arg))

\* :a, which stands second inside the template after ?1 before it and
\* fourth after the template, has been looked up without coalescing
C21_Witness ==
    /\ op = "do_for_param_indexes"
    /\ ~use_native_parameters_syntax_
    /\ ~supports_indexed_params
    /\ sql = <<"?", "1", "{", "i", "f", "_", "s", "e", "q", " ", ":", "a",
               "?", "1", ",", ":", "A", "}", ":", "a">>
    /\ arg = Name(<<":", "a">>)
    /\ thrown = ""
    /\ calls = <<2, 4>>


(***************************************************************************)
(* C22: when the column list of the statement holds a name more than once  *)
(* (letter case aside), a lookup by this name returns the ordinal of the   *)
(* last column of the name.                                                *)
(***************************************************************************)
ColumnsNamed(name) ==
    {k \in DOMAIN columns : FoldCase(columns[k]) = FoldCase(name)}

C22_LastDuplicateWins ==
    (op = "get_column_type" /\ arg.type = "Name" /\ prep_ok
        /\ ColumnsNamed(arg.name) # {}) =>
        /\ thrown = ""
        /\ col_index \in ColumnsNamed(arg.name)
        /\ \A k \in ColumnsNamed(arg.name) : k <= col_index


(***************************************************************************)
(* C30: on one connection object is_connected() is true after every        *)
(* connect() that returned and false after every disconnect() that         *)
(* returned, and the cycle repeats: a connect() that follows a returned    *)
(* disconnect() and a disconnect() that follows a returned connect() are   *)
(* never refused as out of sequence.                                       *)
(***************************************************************************)
C30_ConnectDisconnectCycle ==
    /\ []((op = "connect" /\ thrown = "") => Connection_is_connected(Conn))
    /\ []((op = "disconnect" /\ thrown = "") => ~Connection_is_connected(Conn))
    /\ [][/\ (conn_life = "disconnected" /\ op' = "connect") =>
                 thrown' # "WrongSeqException"
          /\ (conn_life = "connected" /\ op' = "disconnect") =>
                 thrown' # "WrongSeqException"]_vars

\* the disconnect of the third cycle has returned
C30_Witness ==
    /\ op = "disconnect"
    /\ thrown = ""
    /\ cycles = 3
    /\ conn_life = "disconnected"
    /\ ~Connection_is_connected(Conn)


(***************************************************************************)
(* The type conversion engine.  A value of an integer type is the sequence *)
(* of the bytes of its two's complement bit pattern, most significant      *)
(* first; an integer type is its size in bytes and its signedness (int is  *)
(* four bytes wide).                                                       *)
(***************************************************************************)
IntType(bytes, signed) == [kind |-> "int", bytes |-> bytes, signed |-> signed]

Fill(n, b) == [k \in 1..n |-> b]

Negative(t, v) == t.signed /\ v[1] >= 128

\* the conversion of a value of type from to the integer type to: the
\* value modulo 2^N
Converted(from, v, to) ==
    IF to.bytes <= from.bytes
    THEN SubSeq(v, from.bytes - to.bytes + 1, from.bytes)
    ELSE Fill(to.bytes - from.bytes, IF Negative(from, v) THEN 255 ELSE 0) \o v

\* a < b for bit patterns of one width read as unsigned numbers
RECURSIVE LexLess(_, _)
LexLess(a, b) ==
    IF a = <<>> THEN FALSE
    ELSE IF Head(a) # Head(b) THEN Head(a) < Head(b)
    ELSE LexLess(Tail(a), Tail(b))

\* a < b in type t
Less(t, a, b) ==
    IF Negative(t, a) # Negative(t, b) THEN Negative(t, a) ELSE LexLess(a, b)

\* std::numeric_limits<T>::lowest() and max()
numeric_limits_lowest(t) ==
    IF t.signed THEN <<128>> \o Fill(t.bytes - 1, 0) ELSE Fill(t.bytes, 0)

numeric_limits_max(t) ==
    IF t.signed THEN <<127>> \o Fill(t.bytes - 1, 255) ELSE Fill(t.bytes, 255)

\* the integral promotion and the type of a + b (usual arithmetic
\* conversions) for the fixed-width integer types
Promoted(t) == IF t.bytes < 4 THEN IntType(4, TRUE) ELSE t

CommonType(a, b) ==
    LET x == Promoted(a)
        y == Promoted(b)
    IN  IF x.signed = y.signed THEN (IF x.bytes >= y.bytes THEN x ELSE y)
        ELSE LET u == IF x.signed THEN y ELSE x
                 g == IF x.signed THEN x ELSE y
             IN  IF u.bytes >= g.bytes THEN u ELSE g

\* check_cvt_range<T1>(T2 value, true): the exception it ends with
check_cvt_range(T1, T2, value) ==
    LET GeneralType == CommonType(T2, T1)
        v == Converted(T2, value, GeneralType)
        lo == Converted(T1, numeric_limits_lowest(T1), GeneralType)
        hi == Converted(T1, numeric_limits_max(T1), GeneralType)
    IN  IF Less(GeneralType, v, lo) \/ Less(GeneralType, hi, v)
        THEN "TypeRangeExceeds" ELSE ""

Cvt(value, exception) == [value |-> value, thrown |-> exception]

\* int_to<R>(A arg) for an integer type R
int_to(R, A, value) ==
    IF R = A THEN Cvt(value, "")
    ELSE IF check_cvt_range(R, A, value) # ""
    THEN Cvt(<<>>, check_cvt_range(R, A, value))
    ELSE Cvt(Converted(A, value, R), "")

(***************************************************************************)
(* The integer conversions: every pair of fixed-width integer types, the   *)
(* source values at the limits of the types of every width, zero, one,     *)
(* ten and minus one                                                       *)
(***************************************************************************)
Widths == {1, 2, 4, 8}

IntTypes == {IntType(n, signed) : n \in Widths, signed \in BOOLEAN}

Patterns(k) ==
    { Fill(k, 0), Fill(k, 255), <<127>> \o Fill(k - 1, 255),
      <<128>> \o Fill(k - 1, 0), Fill(k - 1, 0) \o <<1>>, Fill(k - 1, 0) \o <<10>> }

IntValues(t) ==
    UNION { {Fill(t.bytes - k, f) \o p : p \in Patterns(k), f \in {0, 255}} :
              k \in {w \in Widths : w <= t.bytes} }

IntInputs ==
    UNION { {[fn |-> "int_to", from |-> A, to |-> R, value |-> v] : v \in IntValues(A)} :
              A \in IntTypes, R \in IntTypes }

\* the objects as constructed, and the input of the conversion to apply
InitOf(inputs) ==
    /\ regex_multiline = FALSE
    /\ backend = "pg"
    /\ preprocessed_sql_ = <<>>
    /\ named_params_ = {}
    /\ indexed_params_ = {}
    /\ use_native_parameters_syntax_ = FALSE
    /\ sql = <<>>
    /\ supports_indexed_params = FALSE
    /\ op = "new"
    /\ arg \in inputs
    /\ calls = <<>>
    /\ thrown = ""
    /\ ret = "none"
    /\ NewStatement
    /\ NewConnection
    /\ NewBuffer

InitInt == InitOf(IntInputs)

\* the call of a conversion function ended as r tells
Converts(name, r) ==
    /\ op = "new"
    /\ op' = name
    /\ ret' = r.value
    /\ thrown' = r.thrown
    /\ UNCHANGED <<regex_multiline, backend, bufVars, preVars, stmtVars, historyVars,
                   tranVars, sqldaVars, colsVars, arg, calls>>

IntTo ==
    /\ arg.fn = "int_to"
    /\ \E r \in {int_to(arg.to, arg.from, arg.value)} : Converts("int_to", r)

NextInt == IntTo

SpecInt == InitInt /\ [][NextInt]_vars

(***************************************************************************)
(* The number a bit pattern of a type stands for, as a pattern of nine     *)
(* bytes read as a signed number, which holds every value of every type    *)
(***************************************************************************)
Wide == IntType(9, TRUE)

Number(t, v) == Converted(t, v, Wide)

NumberLess(a, b) == Less(Wide, a, b)

InRangeOf(t, n) ==
    /\ ~NumberLess(n, Number(t, numeric_limits_lowest(t)))
    /\ ~NumberLess(Number(t, numeric_limits_max(t)), n)

(***************************************************************************)
(* C23: for every integer source type and every integer target type        *)
(* int_to returns the value, unchanged as a number, when the value lies    *)
(* between the lowest and the greatest value of the target type, and ends  *)
(* with TypeRangeExceeds when it does not.                                 *)
(***************************************************************************)
C23_IntToExactOrRangeError ==
    op = "int_to" =>
        IF InRangeOf(arg.to, Number(arg.from, arg.value))
        THEN /\ thrown = ""
             /\ Number(arg.to, ret) = Number(arg.from, arg.value)
        ELSE thrown = "TypeRangeExceeds"


(***************************************************************************)
(* float_to<R>(A arg) for an integer type R.  A float or double value is   *)
(* a number of quarters below 2^23 in magnitude, which both types hold     *)
(* exactly, as are the sums and the comparisons the function makes.        *)
(***************************************************************************)
\* the number a value of a type of at most three bytes stands for
RECURSIVE Unsigned(_)
Unsigned(v) ==
    IF v = <<>> THEN 0 ELSE 256 * Unsigned(SubSeq(v, 1, Len(v) - 1)) + v[Len(v)]

Pow256(n) == 256 ^ n

IntOf(t, v) ==
    IF Negative(t, v) THEN Unsigned(v) - Pow256(t.bytes) ELSE Unsigned(v)

\* the value of type t that stands for n, a number below 2^23 in magnitude
Bytes3(n) ==
    [k \in 1..3 |-> (((n + Pow256(3)) % Pow256(3)) \div Pow256(3 - k)) % 256]

BytesOf(t, n) == Converted(IntType(3, TRUE), Bytes3(n), t)

Quarters(n) == 4 * n

\* check_cvt_range<T1>(T2 value, true) for a float or double value: the
\* type of value + lowest() is T2
check_cvt_range_of_float(T1, value) ==
    IF T1.bytes <= 2
    THEN IF value < Quarters(IntOf(T1, numeric_limits_lowest(T1)))
                \/ value > Quarters(IntOf(T1, numeric_limits_max(T1)))
         THEN "TypeRangeExceeds" ELSE ""
    ELSE IF ~T1.signed /\ value < 0 THEN "TypeRangeExceeds" ELSE ""

\* the conversion of a floating value to an integer type: the fraction is
\* dropped
Truncated(value) == IF value >= 0 THEN value \div 4 ELSE -((-value) \div 4)

\* static_cast<R>(x): the truncated value if R holds it, any value of R if
\* not (the behaviour is undefined)
static_cast_to_int(R, value) ==
    IF \/ R.bytes > 2 /\ (R.signed \/ Truncated(value) >= 0)
       \/ /\ R.bytes <= 2
          /\ Truncated(value) >= IntOf(R, numeric_limits_lowest(R))
          /\ Truncated(value) <= IntOf(R, numeric_limits_max(R))
    THEN {BytesOf(R, Truncated(value))}
    ELSE {numeric_limits_lowest(R), numeric_limits_max(R), Fill(R.bytes, 0)}

\* the outcomes of float_to<R>(arg)
float_to(R, value) ==
    IF check_cvt_range_of_float(R, value) # ""
    THEN {Cvt(<<>>, check_cvt_range_of_float(R, value))}
    ELSE {Cvt(v, "") :
            v \in static_cast_to_int(R, IF value < 0 THEN value - 2 ELSE value + 2)}

SmallIntTypes == {IntType(n, signed) : n \in {1, 2}, signed \in BOOLEAN}

\* the values within a unit and a quarter of zero, of ten, and of the
\* limits of the target type
FloatValues(R) ==
    {Quarters(n) + d :
        n \in {0, 10, -10, IntOf(R, numeric_limits_lowest(R)),
               IntOf(R, numeric_limits_max(R))},
        d \in -5..5}

FloatInputs ==
    UNION { {[fn |-> "float_to", from |-> A, to |-> R, value |-> v] :
                v \in FloatValues(R)} :
              A \in {4, 8}, R \in SmallIntTypes }

InitFloat == InitOf(FloatInputs)

FloatTo ==
    /\ arg.fn = "float_to"
    /\ \E r \in float_to(arg.to, arg.value) : Converts("float_to", r)

NextFloat == FloatTo

SpecFloat == InitFloat /\ [][NextFloat]_vars

\* a number of quarters rounded to the nearest integer, a half away from
\* zero
RoundedHalfAway(value) ==
    IF value >= 0 THEN (value + 2) \div 4 ELSE -((2 - value) \div 4)

(***************************************************************************)
(* C24: float_to of a float or double value to an integer type rounds the  *)
(* value to the nearest integer, a half away from zero, and returns the    *)
(* rounded value when the target type holds it; when the rounded value     *)
(* does not fit it ends with TypeRangeExceeds.                             *)
(***************************************************************************)
C24_FloatToRoundsThenChecks ==
    op = "float_to" =>
        IF /\ RoundedHalfAway(arg.value) >= IntOf(arg.to, numeric_limits_lowest(arg.to))
           /\ RoundedHalfAway(arg.value) <= IntOf(arg.to, numeric_limits_max(arg.to))
        THEN /\ thrown = ""
             /\ IntOf(arg.to, ret) = RoundedHalfAway(arg.value)
        ELSE thrown = "TypeRangeExceeds"


(***************************************************************************)
(* The setters and getters with conversion.  dp is the list of the calls   *)
(* made on it, each with the value handed over or returned; a call of the  *)
(* engine ends with the calls it made, the exception that ended it, and    *)
(* the value it returned (for WrongTypeConvException the two type names    *)
(* of its text).                                                           *)
(***************************************************************************)
ValueTypes ==
    {"Any", "None", "Integer", "Short", "BigInt", "Char", "Varchar", "Boolean",
     "Float", "Double", "Date", "Time", "Timestamp", "Blob", "Null"}

int16_t == IntType(2, TRUE)

int32_t == IntType(4, TRUE)

int64_t == IntType(8, TRUE)

\* float, double, std::string and std::wstring
float_t == [kind |-> "float", bytes |-> 4, signed |-> TRUE]

double_t == [kind |-> "float", bytes |-> 8, signed |-> TRUE]

string_t == [kind |-> "string", bytes |-> 1, signed |-> TRUE]

wstring_t == [kind |-> "wstring", bytes |-> 1, signed |-> TRUE]

FloatTypes == {float_t, double_t}

StringTypes == {string_t, wstring_t}

Floating(type, quarters) == [type |-> type, quarters |-> quarters]

\* int_to<float>, int_to<double>, std::to_string and std::to_wstring of a
\* number: the number in its new type
Rendered_as(type, from, value) == [type |-> type, from |-> from, of |-> value]

get_std_type_name(T) ==
    CASE T = int16_t -> "int16_t"
      [] T = int32_t -> "int32_t"
      [] T = int64_t -> "int64_t"
      [] T = float_t -> "float"
      [] T = double_t -> "double"
      [] T = string_t -> "std::string"
      [] T = wstring_t -> "std::wstring"

Outcome(cs, exception, value) == [calls |-> cs, thrown |-> exception, value |-> value]

DpCall(fn, value) == [fn |-> fn, value |-> value]

\* dp.set_..._impl(index, c) for a conversion that ended as c tells
Delivered(setter, c) ==
    IF c.thrown # "" THEN Outcome(<<>>, c.thrown, <<>>)
    ELSE Outcome(<<DpCall(setter, c.value)>>, "", <<>>)

WrongTypeConvException(from_type_name, to_type_name) ==
    Outcome(<<>>, "WrongTypeConvException", <<from_type_name, to_type_name>>)

\* std::stoll for texts of at most six digits: white space, a sign, digits
stoll(text) ==
    LET i == RunEnd(text, 1, SpaceChars)
        j == IF In(text, i, {"-", "+"}) THEN i + 1 ELSE i
        e == RunEnd(text, j, DigitChars)
    IN  IF e = j THEN Cvt(0, "std::invalid_argument")
        ELSE Cvt((IF Has(text, i, "-") THEN -1 ELSE 1) * atoi(SubSeq(text, j, e - 1)), "")

\* std::stof and std::stod for decimal texts whose fraction is a number of
\* quarters: white space, a sign, digits, a point and digits
stof(text) ==
    LET i == RunEnd(text, 1, SpaceChars)
        j == IF In(text, i, {"-", "+"}) THEN i + 1 ELSE i
        e == RunEnd(text, j, DigitChars)
        f == IF Has(text, e, ".") THEN RunEnd(text, e + 1, DigitChars) ELSE e
        fraction == SubSeq(text, e + 1, f - 1)
    IN  IF e = j /\ fraction = <<>> THEN Cvt(0, "std::invalid_argument")
        ELSE Cvt((IF Has(text, i, "-") THEN -1 ELSE 1)
                     * (Quarters(atoi(SubSeq(text, j, e - 1)))
                          + (Quarters(atoi(fraction)) \div (10 ^ Len(fraction)))),
                 "")

\* str_to<R>(arg)
str_to(R, A, text) ==
    IF R = A THEN Cvt(text, "")
    ELSE IF R \in IntTypes
    THEN IF stoll(text).thrown # "" THEN Cvt(<<>>, stoll(text).thrown)
         ELSE int_to(R, int64_t, BytesOf(int64_t, stoll(text).value))
    ELSE IF stof(text).thrown # "" THEN Cvt(<<>>, stof(text).thrown)
    ELSE Cvt(Floating(R, stof(text).value), "")

set_str_param_with_type_cvt(T, param_type, text) ==
    CASE param_type \in {"Char", "Varchar"} ->
             Outcome(<<DpCall(IF T = string_t THEN "set_u8str_impl"
                              ELSE "set_wstr_impl", text)>>, "", <<>>)
      [] param_type = "Short" -> Delivered("set_int16_impl", str_to(int16_t, T, text))
      [] param_type = "Integer" -> Delivered("set_int32_impl", str_to(int32_t, T, text))
      [] param_type = "BigInt" -> Delivered("set_int64_impl", str_to(int64_t, T, text))
      [] param_type = "Float" -> Delivered("set_float_impl", str_to(float_t, T, text))
      [] param_type = "Double" -> Delivered("set_float_impl", str_to(float_t, T, text))
      [] OTHER -> WrongTypeConvException(get_std_type_name(T), param_type)

\* a set_int_param_with_type_cvt without the default case
dp_set_int_param_with_type_cvt_unchecked(T, param_type, value) ==
    Delivered("set_int32_impl", Cvt(value, ""))

\* set_int_param_with_type_cvt on a setter dp
dp_set_int_param_with_type_cvt(T, param_type, value) ==
    CASE param_type = "Short" -> Delivered("set_int16_impl", int_to(int16_t, T, value))
      [] param_type = "Integer" -> Delivered("set_int32_impl", int_to(int32_t, T, value))
      [] param_type = "BigInt" -> Delivered("set_int64_impl", int_to(int64_t, T, value))
      [] param_type = "Float" ->
             Delivered("set_float_impl", Cvt(Rendered_as(float_t, T, value), ""))
      [] param_type = "Double" ->
             Delivered("set_double_impl", Cvt(Rendered_as(double_t, T, value), ""))
      [] param_type \in {"Char", "Varchar"} ->
             Delivered("set_u8str_impl", Cvt(Rendered_as(string_t, T, value), ""))
      [] OTHER -> WrongTypeConvException(get_std_type_name(T), param_type)

\* float_to<R>(A arg) for the types that are no integer types
float_to_other(R, A, value) ==
    IF R = A THEN Cvt(value, "")
    ELSE IF R \in FloatTypes THEN Cvt(Floating(R, value.quarters), "")
    ELSE Cvt(Rendered_as(R, A, value), "")

\* the outcomes of set_float_param_with_type_cvt
set_float_param_with_type_cvt(T, param_type, value) ==
    CASE param_type = "Short" ->
             {Delivered("set_int16_impl", c) : c \in float_to(int16_t, value.quarters)}
      [] param_type = "Integer" ->
             {Delivered("set_int32_impl", c) : c \in float_to(int32_t, value.quarters)}
      [] param_type = "BigInt" ->
             {Delivered("set_int64_impl", c) : c \in float_to(int64_t, value.quarters)}
      [] param_type = "Float" ->
             {Delivered("set_float_impl", float_to_other(float_t, T, value))}
      [] param_type = "Double" ->
             {Delivered("set_double_impl", float_to_other(double_t, T, value))}
      [] param_type \in {"Char", "Varchar"} ->
             {Delivered("set_u8str_impl", float_to_other(string_t, T, value))}
      [] OTHER -> {WrongTypeConvException(get_std_type_name(T), param_type)}

\* the outcomes of set_param_with_type_cvt
set_param_with_type_cvt(T, param_type, param_value) ==
    IF T \in {int16_t, int32_t, int64_t}
    THEN {dp_set_int_param_with_type_cvt(T, param_type, param_value)}
    ELSE IF T \in FloatTypes
    THEN set_float_param_with_type_cvt(T, param_type, param_value)
    ELSE {set_str_param_with_type_cvt(T, param_type, param_value)}


\* int_to<R>(A arg) and the outcomes of float_to<R>(A arg) for every R
int_to_any(R, A, value) ==
    IF R \in IntTypes THEN int_to(R, A, value)
    ELSE Cvt(Rendered_as(R, A, value), "")

float_to_any(R, A, value) ==
    IF R \in IntTypes THEN float_to(R, value.quarters)
    ELSE {float_to_other(R, A, value)}

\* while (!str.empty() && (str.back() == ' ')) str.pop_back()
RECURSIVE TrimRight(_)
TrimRight(str) ==
    IF str # <<>> /\ str[Len(str)] = " " THEN TrimRight(SubSeq(str, 1, Len(str) - 1))
    ELSE str

\* the call dp.get_..._impl(index) returned stored, the conversion of it
\* ended as c tells
Got(getter, stored, c) == Outcome(<<DpCall(getter, stored)>>, c.thrown, c.value)

\* a get_with_type_cvt that reads every column as a text
get_with_type_cvt_as_text(T, fld_type, stored) ==
    {Got("get_str_utf8_impl", stored, Cvt(stored, ""))}

\* the outcomes of get_with_type_cvt<T>(dp, fld_type, index), stored being
\* what the getter of the column returns
get_with_type_cvt(T, fld_type, stored) ==
    CASE fld_type = "Integer" ->
             {Got("get_int32_impl", stored, int_to_any(T, int32_t, stored))}
      [] fld_type = "Short" ->
             {Got("get_int16_impl", stored, int_to_any(T, int16_t, stored))}
      [] fld_type = "BigInt" ->
             {Got("get_int64_impl", stored, int_to_any(T, int64_t, stored))}
      [] fld_type = "Char" ->
             IF T = string_t
             THEN {Got("get_str_utf8_impl", stored,
                       str_to(T, string_t, TrimRight(stored)))}
             ELSE {Got("get_wstr_impl", stored,
                       str_to(T, wstring_t, TrimRight(stored)))}
      [] fld_type = "Varchar" ->
             IF T = string_t
             THEN {Got("get_str_utf8_impl", stored, str_to(T, string_t, stored))}
             ELSE {Got("get_wstr_impl", stored, str_to(T, wstring_t, stored))}
      [] fld_type = "Float" ->
             {Got("get_float_impl", stored, c) : c \in float_to_any(T, float_t, stored)}
      [] fld_type = "Double" ->
             {Got("get_double_impl", stored, c) : c \in float_to_any(T, double_t, stored)}
      [] OTHER -> {WrongTypeConvException(fld_type, get_std_type_name(T))}

(***************************************************************************)
(* The conversion run: one value set into a slot of every type, or one     *)
(* column of every type read as every type                                 *)
(***************************************************************************)
NumberTexts ==
    { <<"1", "0">>, <<"-", "1", "0">>, <<"3", "2", "7", "6", "7">>,
      <<"3", "2", "7", "6", "8">>, <<"-", "3", "2", "7", "6", "9">>,
      <<"1", ".", "5">>, <<"-", "0", ".", "2", "5">>, <<" ", "7">>,
      <<"7", " ">>, <<"1", "2", "x">>, <<"x">>, <<>> }

FloatQuarters == {0, 6, 39, -39, 131069, 131070, -131073}

SetTypes == {int16_t, int32_t, int64_t} \cup FloatTypes \cup StringTypes

\* the values of type T that are set
SetValuesOf(T) ==
    IF T \in IntTypes THEN IntValues(T)
    ELSE IF T \in FloatTypes THEN {Floating(T, q) : q \in FloatQuarters}
    ELSE NumberTexts

\* the types whose values are written as those of type T are
Alike(T) == {U \in SetTypes : U.kind = T.kind \/ {U, T} \subseteq StringTypes}

StoredValues(fld_type) ==
    CASE fld_type = "Integer" -> IntValues(int32_t)
      [] fld_type = "Short" -> IntValues(int16_t)
      [] fld_type = "BigInt" -> IntValues(int64_t)
      [] fld_type \in {"Char", "Varchar"} -> NumberTexts
      [] fld_type = "Float" -> {Floating(float_t, q) : q \in FloatQuarters}
      [] fld_type = "Double" -> {Floating(double_t, q) : q \in FloatQuarters}
      [] OTHER -> {<<>>}

SetInputs(T) ==
    UNION { {[fn |-> "set", T |-> U, type |-> t, value |-> v] : v \in SetValuesOf(U)} :
              U \in Alike(T), t \in ValueTypes }

GetInputs(fld_types) ==
    UNION { {[fn |-> "get", T |-> T, type |-> t, value |-> v] : v \in StoredValues(t)} :
              T \in SetTypes, t \in fld_types }

InitCvt ==
    \/ InitOf(SetInputs(int32_t))
    \/ InitOf(SetInputs(float_t))
    \/ InitOf(SetInputs(string_t))
    \/ InitOf(GetInputs({"Integer", "Short", "BigInt"}))
    \/ InitOf(GetInputs({"Float", "Double"}))
    \/ InitOf(GetInputs({"Char", "Varchar"}))
    \/ InitOf(GetInputs({"Any", "None", "Boolean", "Date", "Time", "Timestamp",
                          "Blob", "Null"}))

\* the call of the engine ended as r tells
Lands(name, r) ==
    /\ op = "new"
    /\ op' = name
    /\ calls' = r.calls
    /\ ret' = r.value
    /\ thrown' = r.thrown
    /\ UNCHANGED <<regex_multiline, backend, bufVars, preVars, stmtVars, historyVars,
                   tranVars, sqldaVars, colsVars, arg>>

SetParamWithTypeCvt ==
    /\ arg.fn = "set"
    /\ \E r \in set_param_with_type_cvt(arg.T, arg.type, arg.value) :
           Lands("set_param_with_type_cvt", r)

GetWithTypeCvt ==
    /\ arg.fn = "get"
    /\ \E r \in get_with_type_cvt(arg.T, arg.type, arg.value) :
           Lands("get_with_type_cvt", r)

NextCvt == SetParamWithTypeCvt \/ GetWithTypeCvt

SpecCvt == InitCvt /\ [][NextCvt]_vars

(***************************************************************************)
(* Decimal texts: a sign and digits, for a floating slot with a point and  *)
(* a fraction; the number such a text stands for, in quarters              *)
(***************************************************************************)
Unsign(text) == IF Has(text, 1, "-") THEN Tail(text) ELSE text

IsIntegerText(text) ==
    /\ Unsign(text) # <<>>
    /\ \A k \in DOMAIN Unsign(text) : Unsign(text)[k] \in DigitChars

PointAt(text) == FirstOf(text, 1, {"."})

IsDecimalText(text) ==
    \/ IsIntegerText(text)
    \/ /\ PointAt(text) # 0
       /\ IsIntegerText(SubSeq(text, 1, PointAt(text) - 1))
       /\ IsIntegerText(SubSeq(text, PointAt(text) + 1, Len(text)))

QuartersOf(text) ==
    LET sign == IF Has(text, 1, "-") THEN -1 ELSE 1
        p == IF PointAt(text) = 0 THEN Len(text) + 1 ELSE PointAt(text)
        whole == atoi(SubSeq(Unsign(text), 1, p - 1 - (Len(text) - Len(Unsign(text)))))
        fraction == SubSeq(text, p + 1, Len(text))
    IN  sign * (4 * whole + (4 * atoi(fraction)) \div (10 ^ Len(fraction)))

SetterOf(param_type) ==
    CASE param_type = "Short" -> [fn |-> "set_int16_impl", type |-> int16_t]
      [] param_type = "Integer" -> [fn |-> "set_int32_impl", type |-> int32_t]
      [] param_type = "BigInt" -> [fn |-> "set_int64_impl", type |-> int64_t]
      [] param_type = "Float" -> [fn |-> "set_float_impl", type |-> float_t]
      [] param_type = "Double" -> [fn |-> "set_double_impl", type |-> double_t]

(***************************************************************************)
(* C25: a decimal text set into a numeric slot is parsed, and the number   *)
(* is handed to the setter of the slot's type in this type: to             *)
(* set_int16_impl for Short, set_int32_impl for Integer, set_int64_impl    *)
(* for BigInt, set_float_impl for Float and set_double_impl for Double;    *)
(* an integer the type of the slot does not hold ends the call with        *)
(* TypeRangeExceeds and no setter is called.                               *)
(***************************************************************************)
C25_TextIntoNumericSlot ==
    (/\ op = "set_param_with_type_cvt"
     /\ arg.T \in StringTypes
     /\ \/ arg.type \in {"Short", "Integer", "BigInt"} /\ IsIntegerText(arg.value)
        \/ arg.type \in {"Float", "Double"} /\ IsDecimalText(arg.value)) =>
        IF arg.type \in {"Float", "Double"}
        THEN /\ thrown = ""
             /\ calls = <<DpCall(SetterOf(arg.type).fn,
                                 Floating(SetterOf(arg.type).type, QuartersOf(arg.value)))>>
        ELSE IF InRangeOf(SetterOf(arg.type).type,
                          Number(int64_t, BytesOf(int64_t, QuartersOf(arg.value) \div 4)))
        THEN /\ thrown = ""
             /\ Len(calls) = 1
             /\ calls[1].fn = SetterOf(arg.type).fn
             /\ Number(SetterOf(arg.type).type, calls[1].value)
                    = Number(int64_t, BytesOf(int64_t, QuartersOf(arg.value) \div 4))
        ELSE /\ thrown = "TypeRangeExceeds"
             /\ calls = <<>>

(***************************************************************************)
(* C26: a value set into a slot of a type that is no number and no text,   *)
(* and a column of such a type read as any type, ends with                 *)
(* WrongTypeConvException whose text names the source and the target type, *)
(* and no setter or getter of dp is called.                                *)
(***************************************************************************)
Convertible == {"Short", "Integer", "BigInt", "Float", "Double", "Char", "Varchar"}

C26_NoRuleIsWrongTypeConv ==
    (op \in {"set_param_with_type_cvt", "get_with_type_cvt"}
        /\ arg.type \notin Convertible) =>
        /\ thrown = "WrongTypeConvException"
        /\ calls = <<>>
        /\ ret = IF op = "get_with_type_cvt"
                 THEN <<arg.type, get_std_type_name(arg.T)>>
                 ELSE <<get_std_type_name(arg.T), arg.type>>

\* an int32_t value was set into a Date slot
C26_Witness ==
    /\ op = "set_param_with_type_cvt"
    /\ arg.T = int32_t
    /\ arg.type = "Date"
    /\ thrown = "WrongTypeConvException"
    /\ ret = <<"int32_t", "Date">>
    /\ calls = <<>>


(***************************************************************************)
(* The big-endian codecs.  A float or double value is the sequence of the  *)
(* bytes of its bit pattern, most significant first, as an integer value   *)
(* is; an object in memory is the bytes of its value in the order of the   *)
(* host.                                                                   *)
(***************************************************************************)
Reversed(v) == [k \in DOMAIN v |-> v[Len(v) + 1 - k]]

\* the bytes of an object in memory, and the value of the bytes of an
\* object
Stored(v, little_endian) == IF little_endian THEN Reversed(v) ELSE v

Loaded(bytes, little_endian) == IF little_endian THEN Reversed(bytes) ELSE bytes

\* *(uint32_t*)&value, *(float*)&tmp: the object read as one of another
\* type of its size
Reinterpreted(v, little_endian) == Loaded(Stored(v, little_endian), little_endian)

\* value >>= 8 and result <<= 8 in type T
ShiftedRight8(T, v) ==
    <<IF Negative(T, v) THEN 255 ELSE 0>> \o SubSeq(v, 1, Len(v) - 1)

ShiftedLeft8(v) == Tail(v) \o <<0>>

\* the loop of write_value_into_bytes_be from round i on: dest_it stands
\* at byte sizeof(T) - i of dest
RECURSIVE write_loop(_, _, _, _)
write_loop(T, value, i, dest) ==
    IF i >= T.bytes THEN dest
    ELSE write_loop(T, ShiftedRight8(T, value), i + 1,
                    [dest EXCEPT ![T.bytes - i] = value[Len(value)]])

\* a writer that begins at the first byte of dest
write_value_into_bytes_le(T, value, little_endian, dest) ==
    Reversed(write_loop(T, value, 0, dest))

\* write_value_into_bytes_be<T>(value, dest_it): dest after the call
write_value_into_bytes_be(T, value, little_endian, dest) ==
    IF T.kind = "float"
    THEN write_loop(IntType(T.bytes, FALSE), Reinterpreted(value, little_endian), 0, dest)
    ELSE write_loop(T, value, 0, dest)

\* the loop of read_value_from_bytes_be from round i on
RECURSIVE read_loop(_, _, _, _)
read_loop(T, src, i, result) ==
    IF i >= T.bytes THEN result
    ELSE read_loop(T, src, i + 1,
                   [ShiftedLeft8(result) EXCEPT ![T.bytes] = src[i + 1]])

\* read_value_from_bytes_be<T>(src_it)
read_value_from_bytes_be(T, src, little_endian) ==
    IF T.kind = "float"
    THEN Reinterpreted(read_loop(IntType(T.bytes, FALSE), src, 0, Fill(T.bytes, 0)),
                       little_endian)
    ELSE read_loop(T, src, 0, Fill(T.bytes, 0))

(***************************************************************************)
(* The codec run: a value of an integer type, of float or of double is     *)
(* written into a buffer, which calls holds, and read back from it, on a   *)
(* host of either byte order                                               *)
(***************************************************************************)
\* 1.0, -1.5, a NaN, the greatest number, zero and the pattern 12 34 ...
FloatPatterns(n) ==
    { <<63, 128>> \o Fill(n - 2, 0), <<191, 192>> \o Fill(n - 2, 0),
      <<127, 192>> \o Fill(n - 2, 0), <<127, 127>> \o Fill(n - 2, 255),
      Fill(n, 0), [k \in 1..n |-> 17 * k + 1] }

CodecValues(T) ==
    IF T.kind = "float" THEN FloatPatterns(T.bytes)
    ELSE IntValues(T) \cup {[k \in 1..T.bytes |-> 17 * k + 1]}

CodecInputs ==
    UNION { {[fn |-> "codec", T |-> T, value |-> v, little_endian |-> le] :
                v \in CodecValues(T)} :
              T \in IntTypes \cup FloatTypes, le \in BOOLEAN }

InitCodec == InitOf(CodecInputs)

WriteValue ==
    /\ op = "new"
    /\ op' = "write_value_into_bytes_be"
    /\ calls' = write_value_into_bytes_be(arg.T, arg.value, arg.little_endian,
                                          Fill(arg.T.bytes, 0))
    /\ UNCHANGED <<regex_multiline, backend, bufVars, preVars, stmtVars, historyVars,
                   tranVars, sqldaVars, colsVars, arg, ret, thrown>>

ReadValue ==
    /\ op = "write_value_into_bytes_be"
    /\ op' = "read_value_from_bytes_be"
    /\ ret' = read_value_from_bytes_be(arg.T, calls, arg.little_endian)
    /\ UNCHANGED <<regex_multiline, backend, bufVars, preVars, stmtVars, historyVars,
                   tranVars, sqldaVars, colsVars, arg, calls, thrown>>

NextCodec == WriteValue \/ ReadValue

SpecCodec == InitCodec /\ [][NextCodec]_vars

(***************************************************************************)
(* C27: the bytes write_value_into_bytes_be writes are the bit pattern of  *)
(* the value, most significant byte first, on a host of either byte order, *)
(* and read_value_from_bytes_be returns from them the value with the same  *)
(* bit pattern, for every integer type, float and double.                  *)
(***************************************************************************)
C27_BigEndianRoundTrip ==
    /\ op \in {"write_value_into_bytes_be", "read_value_from_bytes_be"} =>
           calls = arg.value
    /\ op = "read_value_from_bytes_be" => ret = arg.value

\* the float -1.5 (BF C0 00 00) was written and read on a little-endian
\* host
C27_Witness ==
    /\ op = "read_value_from_bytes_be"
    /\ arg.T = float_t
    /\ arg.little_endian
    /\ calls = <<191, 192, 0, 0>>
    /\ ret = <<191, 192, 0, 0>>

(***************************************************************************)
(* A double of the date and time conversions.  A double is a sign and a    *)
(* significand of 53 bits times a power of two; every double these         *)
(* functions compute is a whole number of 2^-84 days or hours or seconds,  *)
(* so a double is held as its sign and its magnitude in units of 2^-84,    *)
(* the magnitude a sequence of digits of base 4096, least significant      *)
(* first and without leading zeros.  An operation on doubles is the exact  *)
(* operation followed by the rounding to 53 significant bits, to nearest   *)
(* and to even on a tie, as IEEE 754 double arithmetic does it.            *)
(***************************************************************************)
\* a digit holds 12 bits
Base == 2 ^ 12

\* the 84 bits below one are 7 digits
FracDigits == 84 \div 12

\* a quotient is computed with 36 more bits before it is rounded
GuardDigits == 36 \div 12

RECURSIVE Norm(_)
Norm(s) ==
    IF s = <<>> THEN <<>>
    ELSE IF s[Len(s)] = 0 THEN Norm(SubSeq(s, 1, Len(s) - 1))
    ELSE s

Digit(s, i) == IF i <= Len(s) THEN s[i] ELSE 0

Zeros(n) == [i \in 1..n |-> 0]

RECURSIVE BigOf(_)
BigOf(n) == IF n = 0 THEN <<>> ELSE <<n % Base>> \o BigOf(n \div Base)

RECURSIVE IntOfBig(_)
IntOfBig(s) == IF s = <<>> THEN 0 ELSE s[1] + Base * IntOfBig(Tail(s))

RECURSIVE AddFrom(_, _, _, _)
AddFrom(a, b, i, carry) ==
    IF i > Len(a) /\ i > Len(b)
    THEN IF carry = 0 THEN <<>> ELSE <<carry>>
    ELSE LET t == Digit(a, i) + Digit(b, i) + carry
         IN  <<t % Base>> \o AddFrom(a, b, i + 1, t \div Base)

BigAdd(a, b) == AddFrom(a, b, 1, 0)

\* a - b, for a >= b
RECURSIVE SubFrom(_, _, _, _)
SubFrom(a, b, i, borrow) ==
    IF i > Len(a) THEN <<>>
    ELSE LET t == a[i] - Digit(b, i) - borrow
         IN  IF t < 0 THEN <<t + Base>> \o SubFrom(a, b, i + 1, 1)
             ELSE <<t>> \o SubFrom(a, b, i + 1, 0)

BigSub(a, b) == Norm(SubFrom(a, b, 1, 0))

RECURSIVE BigLessFrom(_, _, _)
BigLessFrom(a, b, i) ==
    IF i = 0 THEN FALSE
    ELSE IF a[i] # b[i] THEN a[i] < b[i]
    ELSE BigLessFrom(a, b, i - 1)

BigLess(a, b) ==
    IF Len(a) # Len(b) THEN Len(a) < Len(b) ELSE BigLessFrom(a, b, Len(a))

\* a * m, for a factor m below 2^18
RECURSIVE MulFrom(_, _, _, _)
MulFrom(a, m, i, carry) ==
    IF i > Len(a) THEN BigOf(carry)
    ELSE LET t == a[i] * m + carry
         IN  <<t % Base>> \o MulFrom(a, m, i + 1, t \div Base)

BigMul(a, m) == Norm(MulFrom(a, m, 1, 0))

\* the quotient q and the remainder r of a by d, for a divisor d below 2^19
RECURSIVE DivFrom(_, _)
DivFrom(a, d) ==
    IF a = <<>> THEN [q |-> <<>>, r |-> 0]
    ELSE LET top == DivFrom(Tail(a), d)
             cur == top.r * Base + a[1]
         IN  [q |-> <<cur \div d>> \o top.q, r |-> cur % d]

BigDiv(a, d) == LET res == DivFrom(a, d) IN [q |-> Norm(res.q), r |-> res.r]

\* the number of bits of a
BitLen(a) ==
    IF a = <<>> THEN 0
    ELSE 12 * (Len(a) - 1) + (CHOOSE k \in 1..12 : 2 ^ (k - 1) <= a[Len(a)] /\ a[Len(a)] < 2 ^ k)

\* a without its n lowest bits, and whether a bit that was dropped was set
ShiftedRight(a, n) ==
    LET whole == n \div 12
        kept  == SubSeq(a, whole + 1, Len(a))
        res   == BigDiv(kept, 2 ^ (n % 12))
    IN  [q |-> res.q,
         lost |-> res.r # 0 \/ \E i \in 1..whole : Digit(a, i) # 0]

ShiftedLeft(a, n) ==
    IF a = <<>> THEN <<>> ELSE Zeros(n \div 12) \o BigMul(a, 2 ^ (n % 12))

\* the magnitude a, which stands for a number between a and a + 1 when
\* sticky, rounded to 53 significant bits
Rounded53(a, sticky) ==
    LET drop == BitLen(a) - 53
    IN  IF drop <= 0 THEN a
        ELSE LET more == ShiftedRight(a, drop - 1)
                 half == more.q[1] % 2 = 1
                 q    == BigDiv(more.q, 2).q
                 odd  == q[1] % 2 = 1
                 up   == half /\ (more.lost \/ sticky \/ odd)
             IN  ShiftedLeft(IF up THEN BigAdd(q, <<1>>) ELSE q, drop)

\* a number of a sign and a magnitude; zero has no sign
Signed(neg, mag) == [neg |-> neg /\ mag # <<>>, mag |-> mag]

\* the conversion of an int to double, which is exact
DoubleOf(i) ==
    Signed(i < 0, Norm(Zeros(FracDigits) \o BigOf(IF i < 0 THEN -i ELSE i)))

\* static_cast<int>(double): the fraction is cut off, towards zero
Trunc(x) ==
    LET whole == IntOfBig(SubSeq(x.mag, FracDigits + 1, Len(x.mag)))
    IN  IF x.neg THEN -whole ELSE whole

RECURSIVE DividedBy(_, _)
DividedBy(res, factors) ==
    IF factors = <<>> THEN res
    ELSE LET next == BigDiv(res.q, Head(factors))
         IN  DividedBy([q |-> next.q, r |-> IF res.r # 0 THEN 1 ELSE next.r],
                       Tail(factors))

\* n / (f1 * f2 * ...) in doubles, for an int n >= 0 and a divisor that is
\* the product of the factors, which is exact in double
Quot(n, factors) ==
    LET res == DividedBy([q |-> Norm(Zeros(FracDigits + GuardDigits) \o BigOf(n)),
                          r |-> 0], factors)
        rnd == Rounded53(res.q, res.r # 0)
    IN  Signed(FALSE, SubSeq(rnd, GuardDigits + 1, Len(rnd)))

\* the exact sum of two numbers of a sign and a magnitude
Sum(x, y) ==
    IF x.neg = y.neg THEN Signed(x.neg, BigAdd(x.mag, y.mag))
    ELSE IF BigLess(x.mag, y.mag) THEN Signed(y.neg, BigSub(y.mag, x.mag))
    ELSE Signed(x.neg, BigSub(x.mag, y.mag))

\* x + y
DAdd(x, y) == LET s == Sum(x, y) IN Signed(s.neg, Rounded53(s.mag, FALSE))

\* x - y
DSub(x, y) == DAdd(x, Signed(~y.neg, y.mag))

\* x * m, for an int m between 1 and 2^18
DMul(x, m) == Signed(x.neg, Rounded53(BigMul(x.mag, m), FALSE))

\* a / b of C++, which cuts the fraction off towards zero
TruncDiv(a, b) == IF a >= 0 THEN a \div b ELSE -((-a) \div b)

(***************************************************************************)
(* The Julian day conversions of dblib_cvt_utils                           *)
(***************************************************************************)
\* time_to_days(hour, min, sec, msec)
time_to_days(time) ==
    DAdd(DAdd(DAdd(Quot(time.hour, <<24>>),
                   Quot(time.min, <<24, 60>>)),
              Quot(time.sec, <<24, 60, 60>>)),
         Quot(time.msec, <<24, 60, 60, 1000>>))

\* date_to_julianday_integer(year, mon, day)
date_to_julianday_integer(date) ==
    LET a == TruncDiv(14 - date.month, 12)
        y == date.year + 4800 - a
        m == date.month + 12 * a - 3
    IN  date.day + TruncDiv(153 * m + 2, 5) + 365 * y + TruncDiv(y, 4)
            - TruncDiv(y, 100) + TruncDiv(y, 400) - 32045

\* date_to_julianday(date)
date_to_julianday(date) == DoubleOf(date_to_julianday_integer(date))

\* timestamp_to_julianday(ts)
timestamp_to_julianday(ts) ==
    DSub(DAdd(date_to_julianday(ts.date), time_to_days(ts.time)), Quot(1, <<2>>))

\* days_to_time(days)
days_to_time(days) ==
    LET d0   == DAdd(DSub(days, DoubleOf(Trunc(days))),
                     Quot(1, <<24, 60, 60, 1000, 10>>))
        d1   == DMul(d0, 24)
        hour == Trunc(d1)
        d2   == DMul(DSub(d1, DoubleOf(hour)), 60)
        min  == Trunc(d2)
        d3   == DMul(DSub(d2, DoubleOf(min)), 60)
        sec  == Trunc(d3)
        d4   == DMul(DSub(d3, DoubleOf(sec)), 1000)
    IN  [hour |-> hour, min |-> min, sec |-> sec, msec |-> Trunc(d4)]

\* julianday_integer_to_date(julianday)
julianday_integer_to_date(julianday) ==
    LET a == julianday + 32044
        b == TruncDiv(4 * a + 3, 146097)
        c == a - TruncDiv(146097 * b, 4)
        d == TruncDiv(4 * c + 3, 1461)
        e == c - TruncDiv(1461 * d, 4)
        m == TruncDiv(5 * e + 2, 153)
    IN  [year  |-> 100 * b + d - 4800 + TruncDiv(m, 10),
         month |-> m + 3 - 12 * TruncDiv(m, 10),
         day   |-> e - TruncDiv(153 * m + 2, 5) + 1]

\* julianday_to_date(julianday)
julianday_to_date(julianday) == julianday_integer_to_date(Trunc(julianday))

\* julianday_to_timestamp(julianday)
julianday_to_timestamp(julianday) ==
    LET jd == DAdd(julianday, Quot(1, <<2>>))
    IN  [date |-> julianday_to_date(jd), time |-> days_to_time(jd)]

(***************************************************************************)
(* The run of the Julian day conversions: a timestamp is converted to a    *)
(* Julian day, which calls holds, and the Julian day is converted back     *)
(***************************************************************************)
YearMonthDay(year, month, day) == [year |-> year, month |-> month, day |-> day]

\* the date of timestamp_cvt_test
TestDate == YearMonthDay(2020, 1, 5)

\* the day before the epoch of PostgreSQL, the first and the last day of the
\* years of four digits, the day of Julian day 0, a day before it and a day
\* of a far year
JulianDates ==
    { YearMonthDay(1999, 12, 31), YearMonthDay(1, 1, 1),
      YearMonthDay(9999, 12, 31), YearMonthDay(-4713, 11, 24),
      YearMonthDay(-4713, 1, 1), YearMonthDay(45000, 1, 1) }

HourMinSecMsec(hour, min, sec, msec) ==
    [hour |-> hour, min |-> min, sec |-> sec, msec |-> msec]

\* the times of timestamp_cvt_test at the first and the last second, with
\* every millisecond, for the date of the test; the first hundred and the
\* last milliseconds of the first and the last minute of a day for the
\* other dates
JulianInputs ==
    { [fn |-> "julianday", date |-> TestDate, time |-> HourMinSecMsec(12, 57, s, ms)] :
          s \in {0, 59}, ms \in 0..999 }
        \cup { [fn |-> "julianday", date |-> d, time |-> HourMinSecMsec(h, h * 2 + 13, h + 36, ms)] :
                   d \in JulianDates, h \in {0, 23}, ms \in (0..99) \cup {998, 999} }

InitJulian == InitOf(JulianInputs)

TimestampToJulianday ==
    /\ op = "new"
    /\ arg.fn = "julianday"
    /\ op' = "timestamp_to_julianday"
    /\ calls' = timestamp_to_julianday(arg)
    /\ UNCHANGED <<regex_multiline, backend, bufVars, preVars, stmtVars, historyVars,
                   tranVars, sqldaVars, colsVars, arg, ret, thrown>>

JuliandayToTimestamp ==
    /\ op = "timestamp_to_julianday"
    /\ op' = "julianday_to_timestamp"
    /\ ret' = julianday_to_timestamp(calls)
    /\ UNCHANGED <<regex_multiline, backend, bufVars, preVars, stmtVars, historyVars,
                   tranVars, sqldaVars, colsVars, arg, calls, thrown>>

NextJulian == TimestampToJulianday \/ JuliandayToTimestamp

SpecJulian == InitJulian /\ [][NextJulian]_vars

(***************************************************************************)
(* C28: a timestamp of any date, second and millisecond that is converted  *)
(* by timestamp_to_julianday and back by julianday_to_timestamp comes back *)
(* with the same date and the same hour, minute, second and millisecond.   *)
(***************************************************************************)
C28_JuliandayRoundTrip ==
    op = "julianday_to_timestamp" =>
        /\ ret.date = arg.date
        /\ ret.time = arg.time

(***************************************************************************)
(* The date and time encoders of the PostgreSQL backend.  An int64_t is    *)
(* held as its sign and its magnitude, a sequence of digits of base 4096   *)
(***************************************************************************)
Int64Of(i) == Signed(i < 0, BigOf(IF i < 0 THEN -i ELSE i))

\* (int32_t)x, for an x an int32_t holds
Int32Of(x) == IF x.neg THEN -IntOfBig(x.mag) ELSE IntOfBig(x.mag)

\* x * m, for an int m between 1 and 2^18
Times(x, m) == Signed(x.neg, BigMul(x.mag, m))

\* x / d and x % d of C++, for an int d between 1 and 2^18: the quotient is
\* cut off towards zero and the remainder has the sign of x
Quo(x, d) == Signed(x.neg, BigDiv(x.mag, d).q)

Rem(x, d) == IF x.neg THEN -BigDiv(x.mag, d).r ELSE BigDiv(x.mag, d).r

RECURSIVE TimesAll(_, _)
TimesAll(x, factors) ==
    IF factors = <<>> THEN x ELSE TimesAll(Times(x, Head(factors)), Tail(factors))

RECURSIVE QuoAll(_, _)
QuoAll(x, factors) ==
    IF factors = <<>> THEN x ELSE QuoAll(Quo(x, Head(factors)), Tail(factors))

\* USecsInDay = 24LL * 60LL * 60LL * 1000LL * 1000LL, as its factors
USecsInDay == <<24, 60, 60, 1000, 1000>>

DaysBetweenJDayAnd2000Year == 2451545

\* dblib_date_to_pg_date(date)
dblib_date_to_pg_date(date) ==
    date_to_julianday_integer(date) - DaysBetweenJDayAnd2000Year

\* dblib_time_to_pg_time(time)
dblib_time_to_pg_time(time) ==
    LET hours == Int64Of(time.hour)
        mins  == Sum(Times(hours, 60), Int64Of(time.min))
        secs  == Sum(Times(mins, 60), Int64Of(time.sec))
        msecs == Sum(Times(secs, 1000), Int64Of(time.msec))
    IN  Sum(Times(msecs, 1000), Int64Of(time.usec))

\* dblib_timestamp_to_pg_timestamp(ts)
dblib_timestamp_to_pg_timestamp(ts) ==
    Sum(TimesAll(Int64Of(dblib_date_to_pg_date(ts.date)), USecsInDay),
        dblib_time_to_pg_time(ts.time))

\* pg_date_to_dblib_date(pg_date)
pg_date_to_dblib_date(pg_date) ==
    julianday_integer_to_date(pg_date + DaysBetweenJDayAnd2000Year)

\* pg_time_to_dblib_time(pg_time, date_rest): the time and *date_rest
pg_time_to_dblib_time(pg_time) ==
    LET positiv_time ==
            IF pg_time.neg
            THEN LET day == QuoAll(pg_time, USecsInDay)
                 IN  Sum(pg_time,
                         TimesAll(Sum(Signed(~day.neg, day.mag), Int64Of(1)),
                                  USecsInDay))
            ELSE pg_time
        usec  == Rem(positiv_time, 1000)
        pos1  == Quo(positiv_time, 1000)
        rest1 == Quo(Sum(pg_time, Int64Of(-usec)), 1000)
        msec  == Rem(pos1, 1000)
        pos2  == Quo(pos1, 1000)
        rest2 == Quo(Sum(rest1, Int64Of(-msec)), 1000)
        sec   == Rem(pos2, 60)
        pos3  == Quo(pos2, 60)
        rest3 == Quo(Sum(rest2, Int64Of(-sec)), 60)
        min   == Rem(pos3, 60)
        pos4  == Quo(pos3, 60)
        rest4 == Quo(Sum(rest3, Int64Of(-min)), 60)
        hour  == Rem(pos4, 24)
        rest5 == Quo(Sum(rest4, Int64Of(-hour)), 24)
    IN  [time |-> [hour |-> hour, min |-> min, sec |-> sec, msec |-> msec,
                   usec |-> usec],
         date_rest |-> Int32Of(rest5)]

\* pg_ts_to_dblib_ts(pg_ts)
pg_ts_to_dblib_ts(pg_ts) ==
    LET res == pg_time_to_dblib_time(pg_ts)
    IN  [date |-> pg_date_to_dblib_date(res.date_rest), time |-> res.time]

\* operator == of Date, of Time and of TimeStamp
dates_equal(date1, date2) ==
    /\ date1.year = date2.year
    /\ date1.month = date2.month
    /\ date1.day = date2.day

times_equal(time1, time2) ==
    /\ time1.hour = time2.hour
    /\ time1.min = time2.min
    /\ time1.sec = time2.sec
    /\ time1.msec = time2.msec

ts_equal(ts1, ts2) ==
    /\ dates_equal(ts1.date, ts2.date)
    /\ times_equal(ts1.time, ts2.time)

(***************************************************************************)
(* The run of the encoders: a date, a time or a timestamp is encoded,      *)
(* calls holds the value PostgreSQL gets, and the value is decoded         *)
(***************************************************************************)
\* the dates and times of the tests pg_date, pg_time and pg_timestamp, the
\* days around the epoch, the first day PostgreSQL holds, the last year its
\* timestamps hold, and days around -4800-03-01
PgDates ==
    { YearMonthDay(0, 1, 22), YearMonthDay(0, 1, 1), YearMonthDay(999, 1, 31),
      YearMonthDay(1917, 1, 1), YearMonthDay(1954, 1, 1),
      YearMonthDay(1999, 12, 31), YearMonthDay(2000, 1, 1),
      YearMonthDay(2021, 11, 21), YearMonthDay(2055, 12, 31),
      YearMonthDay(294276, 12, 31), YearMonthDay(-4713, 11, 24),
      YearMonthDay(-4800, 3, 1), YearMonthDay(-4800, 2, 29),
      YearMonthDay(-4801, 1, 1) }

PgTimes ==
    { [hour |-> h, min |-> m, sec |-> s, msec |-> ms, usec |-> us] :
          h \in {0, 13, 23}, m \in {0, 12, 59}, s \in {0, 44, 59},
          ms \in {0, 555, 999}, us \in {0, 1, 777, 999} }

Midnight == [hour |-> 0, min |-> 0, sec |-> 0, msec |-> 0, usec |-> 0]

PgInputs ==
    { [fn |-> "date", date |-> d, time |-> Midnight] : d \in PgDates }
        \cup { [fn |-> "time", date |-> YearMonthDay(2000, 1, 1), time |-> t] :
                   t \in PgTimes }
        \cup { [fn |-> "timestamp", date |-> d, time |-> t] :
                   d \in PgDates, t \in PgTimes }

InitPgTime == InitOf(PgInputs)

\* one of the encoders returned the value encoded
Encoded(fn, name, encoded) ==
    /\ op = "new"
    /\ arg.fn = fn
    /\ op' = name
    /\ calls' = encoded
    /\ UNCHANGED <<regex_multiline, backend, bufVars, preVars, stmtVars, historyVars,
                   tranVars, sqldaVars, colsVars, arg, ret, thrown>>

\* one of the decoders returned the value decoded
Decoded(encoder, name, decoded) ==
    /\ op = encoder
    /\ op' = name
    /\ ret' = decoded
    /\ UNCHANGED <<regex_multiline, backend, bufVars, preVars, stmtVars, historyVars,
                   tranVars, sqldaVars, colsVars, arg, calls, thrown>>

DateToPgDate ==
    Encoded("date", "dblib_date_to_pg_date", dblib_date_to_pg_date(arg.date))

TimeToPgTime ==
    Encoded("time", "dblib_time_to_pg_time", dblib_time_to_pg_time(arg.time))

TimestampToPgTimestamp ==
    Encoded("timestamp", "dblib_timestamp_to_pg_timestamp",
            dblib_timestamp_to_pg_timestamp(arg))

PgDateToDate ==
    Decoded("dblib_date_to_pg_date", "pg_date_to_dblib_date",
            [date |-> pg_date_to_dblib_date(calls), time |-> Midnight])

PgTimeToTime ==
    Decoded("dblib_time_to_pg_time", "pg_time_to_dblib_time",
            [date |-> YearMonthDay(2000, 1, 1),
             time |-> pg_time_to_dblib_time(calls).time])

PgTsToTs ==
    Decoded("dblib_timestamp_to_pg_timestamp", "pg_ts_to_dblib_ts",
            pg_ts_to_dblib_ts(calls))

NextPgTime ==
    \/ DateToPgDate
    \/ TimeToPgTime
    \/ TimestampToPgTimestamp
    \/ PgDateToDate
    \/ PgTimeToTime
    \/ PgTsToTs

SpecPgTime == InitPgTime /\ [][NextPgTime]_vars

(***************************************************************************)
(* C29: a Date, a Time and a TimeStamp that the PostgreSQL encoders encode *)
(* and decode come back equal to the original, dates before 2000-01-01,    *)
(* whose encoded value is negative, among them.                            *)
(***************************************************************************)
C29_PgDateTimeRoundTrip ==
    /\ op = "pg_date_to_dblib_date" => dates_equal(ret.date, arg.date)
    /\ op = "pg_time_to_dblib_time" => times_equal(ret.time, arg.time)
    /\ op = "pg_ts_to_dblib_ts" => ts_equal(ret, arg)

(***************************************************************************)
(* C31: a fetch that follows a prepare that returned, with no execute in   *)
(* between, ends with WrongSeqException: it returns neither true nor       *)
(* false, and it takes no row from the database and starts no execution.   *)
(***************************************************************************)
C31_FetchAfterPrepareIsWrongSeq ==
    [][(op = "prepare" /\ thrown = "" /\ op' = "fetch") =>
           /\ thrown' = "WrongSeqException"
           /\ ret' = "none"
           /\ cursor' = cursor
           /\ pulled' = pulled]_vars

(***************************************************************************)
(* C32: start() on a transaction that is started (the call before it on    *)
(* the transaction was a start(), a commit_and_start() or a                *)
(* rollback_and_start() that returned, or the create_transaction with      *)
(* autostart that made it) ends with WrongSeqException; commit(),          *)
(* rollback(), commit_and_start() and rollback_and_start() on a            *)
(* transaction whose state is not Started end with WrongSeqException.  In  *)
(* both cases the transaction of the session and the state are as they     *)
(* were before the call.                                                   *)
(***************************************************************************)
StartedByLastCall ==
    /\ tran
    /\ thrown = ""
    /\ \/ op \in {"start", "commit_and_start", "rollback_and_start"}
       \/ op = "create_transaction" /\ autostart

RefusedOutOfSequence ==
    /\ thrown' = "WrongSeqException"
    /\ began' = began
    /\ transaction_is_active_' = transaction_is_active_
    /\ tran_state_' = tran_state_

C32_OutOfSequenceIsRefused ==
    [][/\ (op' = "start" /\ (StartedByLastCall \/ tran_state_ = "Started"))
           => RefusedOutOfSequence
       /\ (op' \in {"commit", "rollback", "commit_and_start", "rollback_and_start"}
              /\ tran_state_ # "Started")
           => RefusedOutOfSequence]_vars

(***************************************************************************)
(* C33: the call that follows a prepare the database rejected, when it is  *)
(* a parameter accessor, a column accessor, execute() or fetch(), ends     *)
(* with WrongSeqException, whatever the statement was before the prepare.  *)
(***************************************************************************)
C33_FailedPrepareLeavesUnprepared ==
    [][(op = "prepare" /\ thrown = "Exception"
           /\ op' \in ParamAccessors \cup ColumnAccessors \cup {"execute", "fetch"})
          => thrown' = "WrongSeqException"]_vars

(***************************************************************************)
(* C34: execute() on a statement on which neither prepare nor an execute   *)
(* has been called ends with WrongSeqException in each of the three        *)
(* classes, and nothing is sent to the database.                           *)
(***************************************************************************)
C34_ExecuteUnpreparedIsWrongSeq ==
    [][(~ever_used /\ op' = "execute") =>
           /\ thrown' = "WrongSeqException"
           /\ cursor' = cursor
           /\ stream_len' = stream_len
           /\ pulled' = pulled
           /\ server_stmt' = server_stmt]_vars

(***************************************************************************)
(* C35: on a SQLite connection the transaction-active flag is true exactly *)
(* while the session holds a transaction that was begun and is not yet     *)
(* committed or rolled back; a start (start(), or create_transaction with  *)
(* autostart) made while the session holds one ends with                   *)
(* WrongSeqException and begins nothing; a start() made while it holds     *)
(* none is not refused as out of sequence.                                 *)
(***************************************************************************)
C35_OneActiveSQLiteTransaction ==
    [][backend = "sqlite" =>
          /\ transaction_is_active_' <=> began'
          /\ (began /\ (op' = "start" \/ (op' = "create_transaction" /\ autostart')))
                => (thrown' = "WrongSeqException" /\ began' = began)
          /\ (~began /\ op' = "start") => thrown' # "WrongSeqException"]_vars

(***************************************************************************)
(* C36: after a connect() that the database ended with an exception        *)
(* is_connected() returns false, and a connect() that follows it is not    *)
(* refused with WrongSeqException, in each of the three classes.           *)
(***************************************************************************)
C36_FailedConnectLeavesDisconnected ==
    [][/\ (op' = "connect" /\ thrown' = "Exception") => ~Connection_is_connected(Conn)'
       /\ (op = "connect" /\ thrown = "Exception" /\ op' = "connect")
             => thrown' # "WrongSeqException"]_vars

(***************************************************************************)
(* get_param_type.  The database describes a type for every native slot of *)
(* a prepared statement: PQparamtype fills param_types_ of PgStatementImpl *)
(* with Oids, isc_dsql_describe_bind the XSQLVARs of in_sqlda_ of          *)
(* FbStatementImpl.  The run keeps the described types of both classes in  *)
(* in_sqlda_.                                                              *)
(***************************************************************************)
Oids == {"INT2OID", "INT4OID", "DATEOID"}

oid_to_value_type(uid) ==
    CASE uid = "INT2OID" -> "Short"
      [] uid = "INT4OID" -> "Integer"
      [] uid = "INT8OID" -> "BigInt"
      [] uid = "FLOAT4OID" -> "Float"
      [] uid = "FLOAT8OID" -> "Double"
      [] uid \in {"VARCHAROID", "NAMEOID", "TEXTOID"} -> "Varchar"
      [] uid = "BPCHAROID" -> "Char"
      [] uid = "DATEOID" -> "Date"
      [] uid = "TIMEOID" -> "Time"
      [] uid = "TIMESTAMPOID" -> "Timestamp"
      [] OTHER -> "InternalException"

Typed(exception, type, slots) == [thrown |-> exception, ret |-> type, calls |-> slots]

\* if (result == ValueType::None) result = param_type;
\* else if (result != param_type) result = ValueType::Any;
Merged(result, param_type) ==
    IF result = "None" THEN param_type
    ELSE IF result # param_type THEN "Any"
    ELSE result

\* the callback of PgStatementImpl::get_param_type for the slots in order:
\* param_types_.at(param_index) is element param_index + 1 of the vector
RECURSIVE PgTypeOfSlots(_, _, _, _)
PgTypeOfSlots(param_types, slots, result, done) ==
    IF slots = <<>> THEN Typed("", result, done)
    ELSE IF Head(slots) + 1 > Len(param_types) THEN Typed("out_of_range", "none", done)
    ELSE IF oid_to_value_type(param_types[Head(slots) + 1]) = "InternalException"
    THEN Typed("InternalException", "none", done)
    ELSE PgTypeOfSlots(param_types, Tail(slots),
                       Merged(result, oid_to_value_type(param_types[Head(slots) + 1])),
                       done \o <<Head(slots)>>)

PgStatementImpl_get_param_type(self, param_types, param) ==
    IF PgStatementImpl_check_is_in_prepared_or_executed_state(self) # ""
    THEN Typed(PgStatementImpl_check_is_in_prepared_or_executed_state(self), "none", <<>>)
    ELSE With(sql_preprocessor_do_for_param_indexes(self, param),
              LAMBDA r :
                  IF r.thrown # "" THEN Typed(r.thrown, "none", <<>>)
                  ELSE PgTypeOfSlots(param_types, r.calls, "None", <<>>))

\* the callback of FbStatementImpl::get_param_type for the slots in order
RECURSIVE FbTypeOfSlots(_, _, _, _)
FbTypeOfSlots(da, slots, result, done) ==
    IF slots = <<>> THEN Typed("", result, done)
    ELSE IF SqlDA_check_index(da, Head(slots)) # ""
    THEN Typed(SqlDA_check_index(da, Head(slots)), "none", done)
    ELSE FbTypeOfSlots(da, Tail(slots),
                       Merged(result, SqlDA_get_column_type(da, Head(slots))),
                       done \o <<Head(slots)>>)

FbStatementImpl_get_param_type(self, da, param) ==
    IF FbStatementImpl_check_is_prepared(self) # ""
    THEN Typed(FbStatementImpl_check_is_prepared(self), "none", <<>>)
    ELSE With(sql_preprocessor_do_for_param_indexes(self, param),
              LAMBDA r :
                  IF r.thrown # "" THEN Typed(r.thrown, "none", <<>>)
                  ELSE FbTypeOfSlots(da, r.calls, "None", <<>>))

(***************************************************************************)
(* The run that asks for parameter types: a statement of the PostgreSQL or *)
(* the Firebird class is prepared once with a text the database accepts,   *)
(* the database describes a type for each of its slots, then               *)
(* get_param_type is called                                                *)
(***************************************************************************)
InitType == Init /\ backend \in {"pg", "fb"}

DescribedTypes == IF backend = "pg" THEN Oids ELSE SqlTypes

TypePrepared(r) ==
    \E types \in [1..r.self.params_count -> DescribedTypes] :
        /\ Assigned("prepare", Index(0), r)
        /\ in_sqlda_' = alloc_fields(types)
        /\ ever_used' = TRUE
        /\ UNCHANGED <<sqlda_before, set_value, sets, replaced, total, fetches,
                       row_ok, run, prev_stream, colsVars>>

TypePgPrepare ==
    /\ backend = "pg"
    /\ ~ever_used
    /\ \E text \in SetTexts :
         \E r \in {PgStatementImpl_prepare(This, text, FALSE, TRUE, 0)} : TypePrepared(r)

TypeFbPrepare ==
    /\ backend = "fb"
    /\ ~ever_used
    /\ \E text \in SetTexts, is_select \in BOOLEAN :
         \E r \in {FbStatementImpl_prepare(This, text, FALSE, TRUE, is_select, 0)} :
             TypePrepared(r)

param_types_ == [k \in DOMAIN in_sqlda_ |-> in_sqlda_[k].sqltype]

GotParamType(param, r) ==
    /\ op' = "get_param_type"
    /\ arg' = param
    /\ calls' = r.calls
    /\ thrown' = r.thrown
    /\ ret' = r.ret
    /\ UNCHANGED <<regex_multiline, backend, bufVars, preVars, stmtVars, historyVars,
                   tranVars, sqldaVars, colsVars>>

PgGetParamType ==
    /\ backend = "pg"
    /\ \E param \in Params :
         \E r \in {PgStatementImpl_get_param_type(This, param_types_, param)} :
             GotParamType(param, r)

FbGetParamType ==
    /\ backend = "fb"
    /\ \E param \in Params :
         \E r \in {FbStatementImpl_get_param_type(This, in_sqlda_, param)} :
             GotParamType(param, r)

NextType == TypePgPrepare \/ TypeFbPrepare \/ PgGetParamType \/ FbGetParamType

SpecType == InitType /\ [][NextType]_vars

(***************************************************************************)
(* C37: on a prepared statement get_param_type of an identifier the text   *)
(* holds returns: the type described for the native slots of the           *)
(* identifier, which are the slots the set functions write for it, when    *)
(* the slots have one type, and Any when they have several; it does not    *)
(* end with an exception.                                                  *)
(***************************************************************************)
\* the type of native slot k (counted from 1) as the set functions read it:
\* oid_to_value_type(param_types_.at(k - 1)), in_sqlda_.get_column_type(k)
TypeOfNativeSlot(k) ==
    IF backend = "pg" THEN oid_to_value_type(param_types_[k])
    ELSE SqlDA_get_column_type(in_sqlda_, k)

TypesOf(id) == {TypeOfNativeSlot(k) : k \in NativeSlotsOf(id)}

C37_ParamTypeOfTheSlotsWritten ==
    (/\ op = "get_param_type"
     /\ ever_used
     /\ \E id \in LexIds(sql) : SameId(id, arg))
    => /\ thrown = ""
       /\ ret = IF Cardinality(TypesOf(arg)) = 1
                THEN CHOOSE t \in TypesOf(arg) : TRUE
                ELSE "Any"

(***************************************************************************)
(* PgBuffer: the rows of a COPY in the binary format.  A buffer is the     *)
(* record of its fields; a member function maps the buffer before the call *)
(* to the buffer after it.  A value is its bytes, first byte first; an     *)
(* optional value is <<>> or the sequence of the one value.                *)
(***************************************************************************)
Buf ==
    [data_ |-> data_, header_added_ |-> header_added_,
     footer_added_ |-> footer_added_, start_tuple_pos_ |-> start_tuple_pos_,
     col_count_ |-> col_count_]

uint16_t == IntType(2, FALSE)

uint32_t == IntType(4, FALSE)

BeBuffSize == 8

PgBuffer_clear(b) ==
    [b EXCEPT !.data_ = <<>>, !.header_added_ = FALSE, !.footer_added_ = FALSE]

\* 'P','G','C','O','P','Y','\n','\377','\r','\n','\0'
header_text == <<80, 71, 67, 79, 80, 89, 10, 255, 13, 10, 0>>

PgBuffer_add_header(b) ==
    IF b.header_added_ THEN b
    ELSE [b EXCEPT !.data_ = @ \o header_text \o <<0, 0, 0, 0>> \o <<0, 0, 0, 0>>,
                   !.header_added_ = TRUE]

PgBuffer_begin_tuple(b) ==
    LET b1 == PgBuffer_add_header(b)
    IN  [b1 EXCEPT !.start_tuple_pos_ = Len(b1.data_),
                   !.data_ = @ \o <<0, 0>>,
                   !.col_count_ = 0]

PgBuffer_write_value(b, T, value, little_endian) ==
    LET be_buffer_ == write_value_into_bytes_be(T, value, little_endian,
                                                Fill(BeBuffSize, 0))
    IN  [b EXCEPT !.data_ = @ \o SubSeq(be_buffer_, 1, T.bytes)]

PgBuffer_write_null(b, little_endian) ==
    PgBuffer_write_value(b, int32_t, BytesOf(int32_t, -1), little_endian)

PgBuffer_write_len(b, len, little_endian) ==
    PgBuffer_write_value(b, int32_t, Converted(uint32_t, len, int32_t), little_endian)

Incremented(T, n) == (n + 1) % Pow256(T.bytes)

PgBuffer_write_opt(b, T, value, little_endian) ==
    LET b1 == IF value # <<>>
              THEN PgBuffer_write_value(
                       PgBuffer_write_len(b, BytesOf(uint32_t, T.bytes), little_endian),
                       T, value[1], little_endian)
              ELSE PgBuffer_write_null(b, little_endian)
    IN  [b1 EXCEPT !.col_count_ = Incremented(uint16_t, @)]

PgBuffer_write_int32_opt(b, value, little_endian) ==
    PgBuffer_write_opt(b, int32_t, value, little_endian)

PgBuffer_write_u8str_opt(b, text, little_endian) ==
    LET b1 == IF text # <<>>
              THEN [PgBuffer_write_len(b, BytesOf(uint32_t, Len(text[1])), little_endian)
                       EXCEPT !.data_ = @ \o text[1]]
              ELSE PgBuffer_write_null(b, little_endian)
    IN  [b1 EXCEPT !.col_count_ = Incremented(uint16_t, @)]

\* data_[start_tuple_pos_] and data_[start_tuple_pos_ + 1] count from 0
PgBuffer_end_tuple(b, little_endian) ==
    LET be_buffer_ == write_value_into_bytes_be(uint16_t, BytesOf(uint16_t, b.col_count_),
                                                little_endian, Fill(BeBuffSize, 0))
    IN  [b EXCEPT !.data_ = [@ EXCEPT ![b.start_tuple_pos_ + 1] = be_buffer_[1],
                                      ![b.start_tuple_pos_ + 2] = be_buffer_[2]],
                  !.start_tuple_pos_ = 0]

PgBuffer_add_footer(b) ==
    IF b.footer_added_ THEN b
    ELSE [b EXCEPT !.data_ = @ \o <<255, 255>>, !.footer_added_ = TRUE]

PgBuffer_get_data(b) == PgBuffer_add_footer(b)

PgBuffer_get_size(b) == PgBuffer_add_footer(b)

\* the assert statements the functions begin with
PgBuffer_write_asserts(b) == b.start_tuple_pos_ # 0

PgBuffer_end_tuple_asserts(b) ==
    b.start_tuple_pos_ # 0 /\ Len(b.data_) > b.start_tuple_pos_ + 1

PgBuffer_get_asserts(b) == b.header_added_ /\ b.start_tuple_pos_ = 0

(***************************************************************************)
(* The buffer run: one PgBuffer, any sequence of calls with at most        *)
(* MaxTuples begin_tuple calls between two clear() and with col_count_ at  *)
(* most MaxCols.       A call whose assertion fails ends the program in a  *)
(* build that compiles the assertions ("abort"); in a build that does not  *)
(* the call is made, and the run ends with it ("unchecked"); end_tuple     *)
(* then writes outside data_ when data_ is too short, which is undefined.  *)
(***************************************************************************)
MaxTuples == 2

MaxCols == 2

Int32Opts == {<<>>, <<BytesOf(int32_t, 1)>>}

StringOpts == {<<>>, << <<97>> >>}

Running == thrown = ""

BufAssigned(name, b, asserts) ==
    /\ Running
    /\ op' = name
    /\ thrown' = IF asserts THEN "" ELSE "unchecked"
    /\ data_' = b.data_
    /\ header_added_' = b.header_added_
    /\ footer_added_' = b.footer_added_
    /\ start_tuple_pos_' = b.start_tuple_pos_
    /\ col_count_' = b.col_count_
    /\ UNCHANGED <<regex_multiline, backend, preVars, stmtVars, historyVars,
                   tranVars, sqldaVars, colsVars, arg, ret>>

\* the call ends the program
Aborted(name, outcome) ==
    /\ Running
    /\ op' = name
    /\ thrown' = outcome
    /\ UNCHANGED <<regex_multiline, backend, preVars, stmtVars, historyVars,
                   tranVars, sqldaVars, colsVars, bufVars, arg, ret, calls>>

BufClear ==
    /\ BufAssigned("clear", PgBuffer_clear(Buf), TRUE)
    /\ tuples' = <<>>
    /\ fields' = <<>>
    /\ begun' = 0
    /\ in_order' = TRUE
    /\ calls' = <<>>

BufBeginTuple ==
    /\ begun < MaxTuples
    /\ BufAssigned("begin_tuple", PgBuffer_begin_tuple(Buf), TRUE)
    /\ fields' = <<>>
    /\ begun' = begun + 1
    /\ in_order' = (in_order /\ start_tuple_pos_ = 0)
    /\ calls' = <<>>
    /\ UNCHANGED tuples

BufWritten(name, value, b) ==
    \/ /\ BufAssigned(name, b, PgBuffer_write_asserts(Buf))
       /\ fields' = Append(fields, value)
       /\ calls' = <<>>
       /\ UNCHANGED <<tuples, begun, in_order>>
    \/ /\ ~PgBuffer_write_asserts(Buf)
       /\ Aborted(name, "abort")

BufWriteInt32Opt ==
    /\ col_count_ < MaxCols
    /\ \E value \in Int32Opts, little_endian \in BOOLEAN :
           BufWritten("write_int32_opt", value,
                      PgBuffer_write_int32_opt(Buf, value, little_endian))

BufWriteU8strOpt ==
    /\ col_count_ < MaxCols
    /\ \E text \in StringOpts, little_endian \in BOOLEAN :
           BufWritten("write_u8str_opt", text,
                      PgBuffer_write_u8str_opt(Buf, text, little_endian))

BufEndTuple ==
    \/ /\ Len(data_) >= start_tuple_pos_ + 2
       /\ \E little_endian \in BOOLEAN :
              BufAssigned("end_tuple", PgBuffer_end_tuple(Buf, little_endian),
                          PgBuffer_end_tuple_asserts(Buf))
       /\ tuples' = Append(tuples, fields)
       /\ fields' = <<>>
       /\ calls' = <<>>
       /\ UNCHANGED <<begun, in_order>>
    \/ /\ ~PgBuffer_end_tuple_asserts(Buf)
       /\ Aborted("end_tuple", "abort")
    \/ /\ Len(data_) < start_tuple_pos_ + 2
       /\ Aborted("end_tuple", "undefined")

BufGot(name, b, reported) ==
    \/ /\ BufAssigned(name, b, PgBuffer_get_asserts(Buf))
       /\ calls' = reported
       /\ UNCHANGED <<tuples, fields, begun, in_order>>
    \/ /\ ~PgBuffer_get_asserts(Buf)
       /\ Aborted(name, "abort")

BufGetData ==
    \E b \in {PgBuffer_get_data(Buf)} : BufGot("get_data", b, b.data_)

BufGetSize ==
    \E b \in {PgBuffer_get_size(Buf)} : BufGot("get_size", b, <<Len(b.data_)>>)

NextBuf ==
    \/ BufClear \/ BufBeginTuple \/ BufWriteInt32Opt \/ BufWriteU8strOpt
    \/ BufEndTuple \/ BufGetData \/ BufGetSize

InitBuf == Init /\ backend = "pg"

SpecBuf == InitBuf /\ [][NextBuf]_vars

(***************************************************************************)
(* C38: whenever get_data() or get_size() has returned, every call since   *)
(* the last clear() having met its assertions and no tuple having been     *)
(* begun inside another, the bytes of the buffer are: the header of 19 bytes once, then *)
(* the tuples ended since the last clear() in their order, each as its     *)
(* number of fields in two bytes and its fields (a length of four bytes    *)
(* and the bytes, or the length -1 of a null), then the two bytes 0xFF     *)
(* 0xFF, which are the last bytes; get_size() has returned their number.   *)
(***************************************************************************)
CopyHeader == header_text \o Fill(8, 0)

FieldBytes(value) ==
    IF value = <<>> THEN Fill(4, 255)
    ELSE BytesOf(int32_t, Len(value[1])) \o value[1]

RECURSIVE Concat(_)
Concat(ss) == IF ss = <<>> THEN <<>> ELSE Head(ss) \o Concat(Tail(ss))

TupleBytes(t) ==
    BytesOf(uint16_t, Len(t)) \o Concat([k \in DOMAIN t |-> FieldBytes(t[k])])

CopyData == CopyHeader \o Concat([k \in DOMAIN tuples |-> TupleBytes(tuples[k])])
                \o <<255, 255>>

C38_HeaderTuplesTrailer ==
    (op \in {"get_data", "get_size"} /\ Running /\ in_order) =>
        /\ data_ = CopyData
        /\ op = "get_data" => calls = CopyData
        /\ op = "get_size" => calls = <<Len(CopyData)>>

(***************************************************************************)
(* The slots of a preprocessed statement                                   *)
(***************************************************************************)
SlotsRecordedIn(map) == UNION {{e.slots[k] : k \in DOMAIN e.slots} : e \in map}

RecordedSlots == SlotsRecordedIn(named_params_) \cup SlotsRecordedIn(indexed_params_)

\* the number of slots the entries of a map hold
RECURSIVE SlotCount(_)
SlotCount(map) ==
    IF map = {} THEN 0
    ELSE LET e == CHOOSE x \in map : TRUE
         IN  Len(e.slots) + SlotCount(map \ {e})

\* the slot numbers the two parameter rendering callbacks were called with
RenderedSlots ==
    {Rendered(preprocessed_sql_)[k].n : k \in DOMAIN Rendered(preprocessed_sql_)}

\* the rendered placeholders a slot was allocated for: every one without
\* coalescing, the first one of each identifier with it
Allocations ==
    LET r == Rendered(preprocessed_sql_)
    IN  Cardinality({k \in DOMAIN r :
            \/ ~supports_indexed_params
            \/ \A j \in 1..(k - 1) :
                   ~SameId(IdOfText(r[j].p), IdOfText(r[k].p))})

(***************************************************************************)
(* C39: after preprocessing in non-pass-through mode the slots recorded in *)
(* the two parameter maps are the numbers 1..N, N being the number of slot *)
(* allocations of the statement; every slot is recorded once, under one    *)
(* identifier, no entry has an empty slot list, and the recorded slots are *)
(* the slot numbers the rendering callbacks were called with.              *)
(***************************************************************************)
C39_SlotsAreOneToN ==
    (op # "new" /\ ~use_native_parameters_syntax_) =>
        /\ RecordedSlots = 1..Allocations
        /\ SlotCount(named_params_) + SlotCount(indexed_params_) = Allocations
        /\ SlotsRecordedIn(named_params_) \cap SlotsRecordedIn(indexed_params_) = {}
        /\ \A e \in named_params_ : e.slots # <<>>
        /\ \A e \in indexed_params_ : e.slots # <<>>
        /\ RenderedSlots = RecordedSlots

\* a statement with a named and an indexed placeholder, one of them twice,
\* preprocessed without coalescing: three slots in two entries
C39_Witness ==
    /\ op = "preprocess"
    /\ ~use_native_parameters_syntax_
    /\ ~supports_indexed_params
    /\ Allocations = 3
    /\ named_params_ # {}
    /\ indexed_params_ # {}
    /\ RecordedSlots = {1, 2, 3}

\* the same statement preprocessed with coalescing: two slots, the repeated
\* placeholder rendered twice with its one slot
C39_WitnessCoalesced ==
    /\ op = "preprocess"
    /\ ~use_native_parameters_syntax_
    /\ supports_indexed_params
    /\ Len(Rendered(preprocessed_sql_)) = 3
    /\ Allocations = 2

=============================================================================
